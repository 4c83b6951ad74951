---------------------------- MODULE MCRunCommand ----------------------------
(* The two parts of a run command that are functions of what it is given:  *)
(* how it comes to its configuration (RunConfiguration), and what it loads *)
(* from the files of the project (WorkflowLoading, with AgentIds).  They   *)
(* meet in the scenario only, where the files come with the settings under *)
(* which they are loaded, and so a behaviour goes through one of the two.  *)
EXTENDS MCWorkflowLoading

CONSTANTS Configurations, AliasOrder, BuiltIns

VARIABLES
  part,        \* which part of the command is gone through; fixed
  scenario, pc, outcome, file, flags, base, profile, config, selection, recorded, first

Families == INSTANCE MCRunConfiguration WITH
  Scenarios <- {}, AliasOrder <- <<>>, BuiltIns <- {}
Configuring == INSTANCE RunConfiguration WITH Scenarios <- Configurations

MCConfigurations == Families!MCScenarios
MCAliasOrder == Families!MCAliasOrder
MCBuiltIns == Families!MCBuiltIns

configVars == <<scenario, pc, outcome, file, flags, base, profile, config, selection,
                recorded, first>>
loadVars == <<vars, callVars>>

CommandInit ==
  \/ /\ part = "configuration"
     /\ project = Plain /\ RunInit
     /\ Configuring!Init
  \/ /\ part = "files"
     /\ scenario = Families!Plain /\ Configuring!Init
     /\ RunInit

CommandNext ==
  /\ part' = part
  /\ \/ part = "configuration" /\ Configuring!Next /\ UNCHANGED loadVars
     \/ part = "files" /\ RunNext /\ UNCHANGED configVars

CommandSpec == CommandInit /\ [][CommandNext]_<<part, configVars, loadVars>>

-----------------------------------------------------------------------------
(* The properties of RunConfiguration, where they are told in full.  What  *)
(* is inherited is sound: aliases and profiles are what their definitions  *)
(* make them, whichever was resolved first, or they are refused.           *)
InheritanceIsSound == Configuring!InheritanceIsSound

(* An agent gets each setting from the first source that gives it, across  *)
(* both loads, the merge, the selection and a replay (of a thinking effort *)
(* that a profile alone gives, see ProfileEffortIsHeard).                  *)
PrecedenceHolds == Configuring!PrecedenceHolds

(* The retry policy of an agent is explained by the layers that speak.     *)
RetryIsExplained == Configuring!RetryIsExplained

(* What a run recorded is replayed in a project that was edited meanwhile, *)
(* unless it is given anew, or the continuation is refused.                *)
ResumeReplays == Configuring!ResumeReplays
=============================================================================
