--------------------------- MODULE SettingsForm ----------------------------
(***************************************************************************)
(* The configuration page of the plugin,                                   *)
(* src/components/AppConfig/AppConfig.tsx: a form that is made from the    *)
(* stored settings, filled in by the data sources and capabilities that    *)
(* arrive, edited, and written back as a whole; and what the pages read of *)
(* the settings (src/utils/datasources.ts).                                *)
(*                                                                         *)
(* An empty field is None.  Text fields that are only carried along (the   *)
(* metric namespace, the unit, the nais URL and the investigation) are one *)
(* field, "text"; a hostname is known by the name it is normalised to.     *)
(*                                                                         *)
(* Definitions marked "Slip" are wrong variants of the one that follows    *)
(* them.  The specification uses none; each breaks a property below.       *)
(***************************************************************************)
EXTENDS Integers, Sequences, FiniteSets, SequencesExt, Ordering

CONSTANTS
  Kinds,      \* kinds of data sources: metrics, traces, logs
  EnvNames,   \* names of environments
  Values,     \* what is typed: uids, routing names, services
  Secrets,    \* tokens and keys
  Labels,     \* labels that may be overridden, "logs" among them
  Hosts,      \* ingress hostnames, normalised
  Sources,    \* answers of /api/datasources: [kind, uid, def, env]
  Detected,   \* what the capability detection may find for "text", or None
  Stored,     \* settings that may be stored to begin with
  MaxEdits,   \* bound of the edits of a form
  None        \* an empty field

VARIABLES stored, form, arrived, edits

vars == <<stored, form, arrived, edits>>

(* A data source is named as it was answered or typed.                     *)
Uids == (UNION {{s.uid : s \in a} : a \in Sources}) \cup Values

(* What may be said of some environments.                                  *)
PerEnvironment(V) == UNION {[E -> V] : E \in SUBSET EnvNames}

(* The settings that the page writes: nothing is stored that is empty.     *)
Settings ==
  [uids : [Kinds -> Uids \cup {None}], byEnv : [Kinds -> PerEnvironment(Uids)],
   routing : PerEnvironment(Values), labels : [Labels -> Values \cup {None}],
   aliases : {a \in Seq(Hosts \X Values) : \A i, j \in DOMAIN a : a[i][1] = a[j][1] => i = j},
   watch : Seq(Values \X Values),
   text : Values \cup Detected \cup {None}, secrets : [Secrets -> Values \cup {None}]]

(* Environments are numbered in the order of their names.                  *)
ConstantsOK ==
  /\ Stored \subseteq Settings
  /\ \A a \in Sources :
       /\ IsFiniteSet(a) /\ a # None
       /\ \A s \in a : s.kind \in Kinds /\ s.uid # None /\ s.env \in EnvNames \cup {None}
  /\ EnvNames \subseteq Int /\ IsFiniteSet(EnvNames)
  /\ None \notin EnvNames /\ None \notin Values /\ None \notin Hosts /\ None # {}
  /\ MaxEdits \in Nat

NoRow == [env |-> None, uids |-> [k \in Kinds |-> None], routing |-> None]

-----------------------------------------------------------------------------
(* From the settings to the form.                                          *)

(* The order of localeCompare, or of a sorted set of names.                *)
ByName(names) == Ascending(names)

Row(s, e) ==
  [env |-> e,
   uids |-> [k \in Kinds |-> IF e \in DOMAIN s.byEnv[k] THEN s.byEnv[k][e] ELSE None],
   routing |-> IF e \in DOMAIN s.routing THEN s.routing[e] ELSE None]

(* Slip: an environment that only has a routing name gets no row.          *)
RowsOfSources(s) ==
  LET names == ByName(UNION {DOMAIN s.byEnv[k] : k \in Kinds})
  IN  [i \in DOMAIN names |-> Row(s, names[i])]

parseEnvOverrides(s) ==
  LET names == ByName(DOMAIN s.routing \cup UNION {DOMAIN s.byEnv[k] : k \in Kinds})
  IN  [i \in DOMAIN names |-> Row(s, names[i])]

(* A secret is never part of the settings that are read: only whether      *)
(* there is one.                                                           *)
FormOf(s) ==
  [uids |-> s.uids, rows |-> parseEnvOverrides(s), labels |-> s.labels, aliases |-> s.aliases,
   watch |-> s.watch, text |-> s.text,
   secrets |-> [x \in Secrets |-> [typed |-> None, configured |-> s.secrets[x] # None,
                                   reset |-> FALSE]]]

Init ==
  /\ stored \in Stored
  /\ form = FormOf(stored)
  /\ arrived = None
  /\ edits = 0

-----------------------------------------------------------------------------
(* Data sources arrive.                                                    *)

(* The default of a kind, or the only one there is.                        *)
AutoFill(k) ==
  LET all == {s \in arrived' : s.kind = k}
      def == {s \in all : s.def}
  IN  IF def # {} THEN (CHOOSE s \in def : TRUE).uid
      ELSE IF Cardinality(all) = 1 THEN (CHOOSE s \in all : TRUE).uid ELSE None

(* Rows for the environments the names of the sources give away, unless    *)
(* some row names a source already.                                        *)
EnvsDetected(f) ==
  /\ ~\E i \in DOMAIN f.rows, k \in Kinds : f.rows[i].uids[k] # None
  /\ \E k \in Kinds : Cardinality({s \in arrived' : s.kind = k}) > 1
  /\ \E s \in arrived' : s.env # None

NamedFor(e) ==
  [k \in Kinds |-> IF \E s \in arrived' : s.kind = k /\ s.env = e
                   THEN (CHOOSE s \in arrived' : s.kind = k /\ s.env = e).uid ELSE None]

(* The last row of an environment is the one that counts.                  *)
LastRow(f, e) == f.rows[CHOOSE i \in DOMAIN f.rows : /\ f.rows[i].env = e
                                                    /\ \A j \in DOMAIN f.rows : f.rows[j].env = e => j <= i]

(* Slip: a detected environment starts with an empty row.                  *)
MergedBare(f) ==
  LET typed == {f.rows[i].env : i \in DOMAIN f.rows}
      found == {s.env : s \in arrived'} \ {None}
      names == ByName((typed \cup found) \ {None})
  IN  (IF None \in typed THEN <<LastRow(f, None)>> ELSE << >>)
        \o [i \in DOMAIN names |->
              IF names[i] \in found
              THEN [env |-> names[i], uids |-> NamedFor(names[i]), routing |-> None]
              ELSE LastRow(f, names[i])]

(* A row per environment, with the routing name it had.                    *)
Merged(f) ==
  LET typed == {f.rows[i].env : i \in DOMAIN f.rows}
      found == {s.env : s \in arrived'} \ {None}
      names == ByName((typed \cup found) \ {None})
  IN  (IF None \in typed THEN <<LastRow(f, None)>> ELSE << >>)
        \o [i \in DOMAIN names |->
              IF names[i] \in found
              THEN [env |-> names[i], uids |-> NamedFor(names[i]),
                    routing |-> IF names[i] \in typed THEN LastRow(f, names[i]).routing ELSE None]
              ELSE LastRow(f, names[i])]

SourcesArrive ==
  /\ arrived = None
  /\ arrived' \in Sources
  /\ form' = [form EXCEPT
                !.uids = [k \in Kinds |-> IF form.uids[k] = None THEN AutoFill(k) ELSE form.uids[k]],
                !.rows = IF EnvsDetected(form) THEN Merged(form) ELSE form.rows]
  /\ UNCHANGED <<stored, edits>>

(* A failed fetch leaves text inputs in the place of the choices.          *)
SourcesFail ==
  /\ arrived = None
  /\ arrived' = {}
  /\ UNCHANGED <<stored, form, edits>>

-----------------------------------------------------------------------------
(* Edits.                                                                  *)

Edit(f) == edits < MaxEdits /\ edits' = edits + 1 /\ form' = f /\ UNCHANGED <<stored, arrived>>

(* A source is chosen among those that arrived, or typed while none have.  *)
Typable(k) ==
  LET known == IF arrived = None THEN {} ELSE {s.uid : s \in {x \in arrived : x.kind = k}}
  IN  {None} \cup IF known = {} THEN Values ELSE known

pickSource == \E k \in Kinds : \E v \in Typable(k) : Edit([form EXCEPT !.uids[k] = v])

(* "Auto-detect capabilities" sets what it finds, and keeps the rest.      *)
onAutoDetect == \E d \in Detected : d # None /\ Edit([form EXCEPT !.text = d])

onChange == \E v \in Values \cup {None} : Edit([form EXCEPT !.text = v])

onLabelOverrideChange ==
  \E l \in Labels \ {"logs"}, v \in Values \cup {None} : Edit([form EXCEPT !.labels[l] = v])

addEnvOverride == Edit([form EXCEPT !.rows = Append(@, NoRow)])

onEnvChange ==
  \E i \in DOMAIN form.rows :
    \/ \E e \in EnvNames : Edit([form EXCEPT !.rows[i].env = e])
    \/ \E k \in Kinds : \E v \in Typable(k) : Edit([form EXCEPT !.rows[i].uids[k] = v])
    \/ \E v \in Values \cup {None} : Edit([form EXCEPT !.rows[i].routing = v])

removeEnvOverride == \E i \in DOMAIN form.rows : Edit([form EXCEPT !.rows = RemoveAt(@, i)])

(* Aliases and watched services are rows of two names each.                *)
onAliasChange ==
  \/ Edit([form EXCEPT !.aliases = Append(@, <<None, None>>)])
  \/ \E i \in DOMAIN form.aliases, h \in Hosts \cup {None}, v \in Values \cup {None} :
       Edit([form EXCEPT !.aliases[i] = <<h, v>>])
  \/ \E i \in DOMAIN form.aliases : Edit([form EXCEPT !.aliases = RemoveAt(@, i)])

onWatchlistChange ==
  \/ Edit([form EXCEPT !.watch = Append(@, <<None, None>>)])
  \/ \E i \in DOMAIN form.watch, n \in Values \cup {None}, v \in Values \cup {None} :
       Edit([form EXCEPT !.watch[i] = <<n, v>>])
  \/ \E i \in DOMAIN form.watch : Edit([form EXCEPT !.watch = RemoveAt(@, i)])

(* A secret that is configured shows a Reset button in place of its field. *)
typeSecret ==
  \E x \in Secrets, v \in Values \cup {None} :
    /\ ~form.secrets[x].configured
    /\ Edit([form EXCEPT !.secrets[x] = [typed |-> v, configured |-> FALSE, reset |-> FALSE]])

resetSecret ==
  \E x \in Secrets :
    Edit([form EXCEPT !.secrets[x] = [typed |-> None, configured |-> FALSE, reset |-> TRUE]])

-----------------------------------------------------------------------------
(* From the form to the settings.                                          *)

(* What the rows say of a field, given by row: the last one that says      *)
(* something of an environment counts.                                     *)
ByEnvironment(rows, field) ==
  LET said(e) == {i \in DOMAIN rows : rows[i].env = e /\ field[i] # None}
      names == {e \in EnvNames : said(e) # {}}
  IN  [e \in names |-> field[CHOOSE i \in said(e) : \A j \in said(e) : j <= i]]

RoutingOf(rows) == ByEnvironment(rows, [i \in DOMAIN rows |-> rows[i].routing])

(* A value that was typed is sent; a Reset sends an empty one; a secret    *)
(* that was left alone is not sent, and stays.                             *)
secureJsonData(f, s) ==
  [x \in Secrets |->
     IF f.secrets[x].typed # None THEN f.secrets[x].typed
     ELSE IF f.secrets[x].reset THEN None ELSE s[x]]

CompleteAt(pairs) == {i \in DOMAIN pairs : pairs[i][1] # None /\ pairs[i][2] # None}

Complete(pairs) == ElementsAt(pairs, CompleteAt(pairs))

(* A hostname keeps the place where it is first given a service, and has   *)
(* the service that it is given last.                                      *)
AliasesOf(pairs) ==
  LET said(h) == {i \in CompleteAt(pairs) : pairs[i][1] = h}
      first == ElementsAt(pairs, {i \in CompleteAt(pairs) : \A j \in said(pairs[i][1]) : i <= j})
      last(h) == CHOOSE i \in said(h) : \A j \in said(h) : j <= i
  IN  [k \in DOMAIN first |-> <<first[k][1], pairs[last(first[k][1])][2]>>]

(* The settings that a form is written back as.                            *)
jsonData(f, s) ==
  [uids |-> f.uids,
   byEnv |-> [k \in Kinds |-> ByEnvironment(f.rows, [i \in DOMAIN f.rows |-> f.rows[i].uids[k]])],
   routing |-> RoutingOf(f.rows),
   labels |-> f.labels,
   aliases |-> AliasesOf(f.aliases),
   watch |-> Complete(f.watch),
   text |-> f.text,
   secrets |-> secureJsonData(f, s)]

(* The settings are replaced as a whole, and the page is loaded again; a   *)
(* save that fails is logged and changes nothing.                          *)
onSubmit ==
  /\ stored' = jsonData(form, stored.secrets)
  /\ form' = FormOf(stored')
  /\ arrived' = None
  /\ UNCHANGED edits

Next ==
  \/ SourcesArrive \/ SourcesFail
  \/ pickSource \/ onAutoDetect \/ onChange \/ onLabelOverrideChange
  \/ addEnvOverride \/ onEnvChange \/ removeEnvOverride
  \/ onAliasChange \/ onWatchlistChange \/ typeSecret \/ resetSecret
  \/ onSubmit

Spec == Init /\ [][Next]_vars

-----------------------------------------------------------------------------
(* What the pages read: the overrides that are valid label names.          *)
sanitizeOverrides(labels) == [l \in Labels |-> IF l = "logs" THEN None ELSE labels[l]]

OneRowEach ==
  \A i, j \in DOMAIN form.rows : form.rows[i].env = form.rows[j].env => i = j

(* The form has a row for every override, and fields of the known values.  *)
FormTypeOK ==
  /\ form.uids \in [Kinds -> Uids \cup {None}]
  /\ \A i \in DOMAIN form.rows : form.rows[i].env \in EnvNames \cup {None}
  /\ DOMAIN stored.secrets = Secrets
  /\ edits \in 0 .. MaxEdits

(* A form that is saved as it was made leaves the settings as they were:   *)
(* nothing is lost on the way through the fields, and no secret is         *)
(* overwritten (the round trip of parseEnvOverrides and onSubmit).         *)
SaveIsStable == [][form = FormOf(stored) /\ arrived' = None => stored' = stored]_vars

(* Data sources that arrive late fill what is empty: a source that was     *)
(* chosen or configured stays, for the plugin and for every environment,   *)
(* and so does every routing name that would have been saved.  (Of two     *)
(* rows that name the same environment only the last one survives.)        *)
ArrivalKeepsEdits ==
  [][arrived = None /\ arrived' # None /\ OneRowEach =>
       /\ \A k \in Kinds : form.uids[k] # None => form'.uids[k] = form.uids[k]
       /\ \A i \in DOMAIN form.rows, k \in Kinds :
            form.rows[i].uids[k] # None => \E j \in DOMAIN form'.rows : form'.rows[j] = form.rows[i]
       /\ RoutingOf(form.rows) = RoutingOf(form'.rows)]_vars

(* types/plugin.ts:20 has an override of the label that names a service in *)
(* the logs; sanitizeOverrides drops it, so no page ever sees it.          *)
OverridesReachPages == \A l \in Labels : sanitizeOverrides(stored.labels)[l] = stored.labels[l]

(* The comment at AppConfig.tsx:375 has a Reset clear the secret; a value  *)
(* that is typed after it and deleted again takes the Reset back.          *)
ResetClears ==
  [][\A x \in Secrets :
       stored' # stored /\ stored.secrets[x] # None /\ ~form.secrets[x].configured
         => stored'.secrets[x] = form.secrets[x].typed]_vars

=============================================================================
