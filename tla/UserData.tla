------------------------------ MODULE UserData ------------------------------
(***************************************************************************)
(* What users keep with the app: the configuration of the plugin, what     *)
(* they have decided about issues, and the favourites.  The three share no *)
(* state, so a behaviour is one of one of them ("part"); the others stay   *)
(* as they began.                                                          *)
(***************************************************************************)
EXTENDS Favorites, Sequences

CONSTANTS
  Kinds, EnvNames, Values, Secrets, Labels, Hosts, Sources, Detected, Stored, MaxEdits,  \* of SettingsForm
  Lists, Server, PageSize, InitialMutes, MaxSteps, Waiting                               \* of IssueTriage

VARIABLES
  part,
  stored, form, arrived, edits,                     \* of SettingsForm
  log, groups, states, asked, overrides, deployed, posts, mutes, view, past  \* of IssueTriage

formVars == <<stored, form, arrived, edits>>
tableVars == <<log, groups, states, asked, overrides, deployed, posts, mutes, view, past>>
userVars == <<part, vars, formVars, tableVars>>

Settings == INSTANCE SettingsForm

(* The history of the table is named past, beside that of the favourites.  *)
Table == INSTANCE IssueTriage WITH history <- past

(* What the page writes may be stored, an answer is not nothing.           *)
ASSUME UserDataAssumption == Settings!ConstantsOK /\ Table!ConstantsOK

-----------------------------------------------------------------------------
FormRests == Settings!Init /\ stored = CHOOSE s \in Stored : TRUE
FavoritesRest == Init /\ remote = None /\ local = [b \in Browsers |-> {}]

UserInit ==
  /\ Table!Init
  /\ \/ part = "favourites" /\ Init /\ FormRests
     \/ part = "settings" /\ FavoritesRest /\ Settings!Init
     \/ part = "issues" /\ FavoritesRest /\ FormRests

UserNext ==
  \/ part = "favourites" /\ Next /\ UNCHANGED <<part, formVars, tableVars>>
  \/ part = "settings" /\ Settings!Next /\ UNCHANGED <<part, vars, tableVars>>
  \/ part = "issues" /\ Table!Next /\ UNCHANGED <<part, vars, formVars>>

UserSpec == UserInit /\ [][UserNext]_userVars

-----------------------------------------------------------------------------
(* The state of each part has its type.                                    *)
UserDataTypeOK ==
  /\ FavoritesTypeOK
  /\ Settings!FormTypeOK
  /\ Table!TriageTypeOK

(* Saving a form that was not edited changes nothing of what is stored,    *)
(* and data sources that arrive late overwrite nothing the user has chosen *)
(* (SettingsForm).                                                         *)
EditsAreKept == Settings!SaveIsStable /\ Settings!ArrivalKeepsEdits

(* A row of the table of issues keeps what was acknowledged, and its pages *)
(* keep their reader among rows (IssueTriage).                             *)
TableKeepsUp == part = "issues" => Table!RowKeepsAct /\ Table!PageNotStranded

(* types/plugin.ts:20 has an override of the label that names a service in *)
(* the logs, and the logs of a service are asked for with it: what an      *)
(* administrator has stored is what the pages get (SettingsForm).  Checked *)
(* by the run that expects a violation.                                    *)
OverridesReachPages == Settings!OverridesReachPages

=============================================================================
