------------------------------ MODULE Settings -------------------------------
(***************************************************************************)
(* The configuration: settings/settings.go over the table settings.        *)
(*                                                                         *)
(* Update patches the values in force, writes all of them to the table in  *)
(* one transaction and then puts them in force: three steps, which the     *)
(* updates of two administrators interleave.  A start fills in the keys    *)
(* the table lacks and loads it; one value that cannot be read makes all   *)
(* of them the defaults.                                                   *)
(***************************************************************************)
EXTENDS Naturals

CONSTANTS
  Key,        \* keys of the configuration
  Value,      \* values within the bounds of their keys
  Default,    \* the default of every key
  Saver,      \* the updates served at a time
  MaxSaves,   \* bound: updates, edits of the table and starts of a behaviour
  NoSave

ASSUME SettingsAssumption ==
  /\ Default \in Value /\ MaxSaves \in Nat
  /\ "bad" \notin Value /\ "missing" \notin Value /\ "keep" \notin Value

VARIABLES
  table,     \* the table settings
  values,    \* the values in force (Service.values)
  save,      \* the updates
  saves,     \* updates, edits and starts so far
  crossed,   \* updates since whose transaction the table was written again
  overtaken, \* updates since whose first step it was
  drift      \* values and table may differ

setvars == <<table, values, save, saves, crossed, overtaken, drift>>

Stored == Value \cup {"bad", "missing"}
NoChange == "keep"
PatchOf == [Key -> Value \cup {NoChange}]
SaveRecord == [pc : {"put", "swap"}, patch : PatchOf, next : [Key -> Value]]

SetTypeOK ==
  /\ table \in [Key -> Stored]
  /\ values \in [Key -> Value]
  /\ save \in [Saver -> SaveRecord \cup {NoSave}]
  /\ saves \in 0 .. MaxSaves
  /\ crossed \subseteq Saver /\ overtaken \subseteq Saver
  /\ drift \in BOOLEAN

Defaults == [k \in Key |-> Default]

FromMap(raw) ==
  IF \E k \in Key : raw[k] = "bad" THEN Defaults
  ELSE [k \in Key |-> IF raw[k] = "missing" THEN Default ELSE raw[k]]

\* Only what is missing is filled in.
Seed(raw) == [k \in Key |-> IF raw[k] = "missing" THEN Default ELSE raw[k]]

SetInit ==
  /\ table \in [Key -> Stored]
  /\ values = FromMap(table)
  /\ save = [s \in Saver |-> NoSave]
  /\ saves = 0 /\ crossed = {} /\ overtaken = {} /\ drift = FALSE

Counted == saves < MaxSaves /\ saves' = saves + 1

\* Mutant: what the patch leaves out gets its default.
Next_FromDefaults(patch) == [k \in Key |-> IF patch[k] = NoChange THEN Default ELSE patch[k]]

\* Update: the values in force with the patch; an invalid or empty patch is refused.
NextValues(patch) == [k \in Key |-> IF patch[k] = NoChange THEN values[k] ELSE patch[k]]

Update(s, patch) ==
  /\ save[s] = NoSave /\ \E k \in Key : patch[k] # NoChange
  /\ Counted
  /\ save' = [save EXCEPT ![s] = [pc |-> "put", patch |-> patch, next |-> NextValues(patch)]]
  /\ overtaken' = IF drift THEN overtaken \cup {s} ELSE overtaken \ {s}
  /\ UNCHANGED <<table, values, crossed, drift>>

Written(s) == /\ crossed' = (crossed \cup {t \in Saver \ {s} : save[t] # NoSave /\ save[t].pc = "swap"}) \ {s}
              /\ overtaken' = overtaken \cup {t \in Saver \ {s} : save[t] # NoSave /\ save[t].pc = "put"}
              /\ drift' = TRUE

\* PutSettings commits every key, whatever the patch was; when the answer of the
\* commit is lost, the new values are stored but not in force.
PutSettings(s, answered) ==
  /\ save[s] # NoSave /\ save[s].pc = "put"
  /\ table' = save[s].next
  /\ save' = [save EXCEPT ![s] = IF answered THEN [@ EXCEPT !.pc = "swap"] ELSE NoSave]
  /\ Written(s)
  /\ UNCHANGED <<values, saves>>

PutFails(s) ==
  /\ save[s] # NoSave /\ save[s].pc = "put"
  /\ save' = [save EXCEPT ![s] = NoSave]
  /\ UNCHANGED <<table, values, saves, crossed, overtaken, drift>>

\* Mutant: what comes into force is the patch on the values in force by then.
InForce_Merged(s) ==
  [k \in Key |-> IF save[s].patch[k] = NoChange THEN values[k] ELSE save[s].next[k]]

\* All the values, as they were patched in the first step.
InForce(s) == save[s].next

Swap(s) ==
  /\ save[s] # NoSave /\ save[s].pc = "swap"
  /\ values' = InForce(s)
  /\ save' = [save EXCEPT ![s] = NoSave]
  /\ drift' = (s \in crossed)
  /\ UNCHANGED <<table, saves, crossed, overtaken>>

\* The process starts again: Seed, then Reload.
Restart ==
  /\ Counted
  /\ table' = Seed(table)
  /\ values' = FromMap(Seed(table))
  /\ save' = [s \in Saver |-> NoSave]
  /\ crossed' = {} /\ overtaken' = {} /\ drift' = FALSE

\* Somebody edits the table by hand.
Edit(k, v) ==
  /\ Counted
  /\ table' = [table EXCEPT ![k] = v]
  /\ crossed' = {s \in Saver : save[s] # NoSave /\ save[s].pc = "swap"}
  /\ overtaken' = {s \in Saver : save[s] # NoSave}
  /\ drift' = TRUE
  /\ UNCHANGED <<values, save>>

SetNext ==
  \/ \E s \in Saver : \/ \E patch \in PatchOf : Update(s, patch)
                      \/ \E answered \in BOOLEAN : PutSettings(s, answered)
                      \/ PutFails(s) \/ Swap(s)
  \/ Restart
  \/ \E k \in Key, v \in Stored : Edit(k, v)

SetSpec == SetInit /\ [][SetNext]_setvars

(***************************************************************************)
(* Properties.                                                             *)
(***************************************************************************)

\* What is in force is what the table says, and so what a restart would bring,
\* between the end of an update that no other overtook and the next write: in
\* particular an update ends every earlier disagreement (settings.go:228).
InForceIsStored == ~drift => values = FromMap(table)

\* An update that nothing overtook changes only the keys of its patch: it writes the
\* others as they are, unless one of the stored values could not be read
\* (settings.go:209).
OthersAreKept ==
  [][\A s \in Saver :
       /\ save[s] # NoSave /\ save[s].pc = "put" /\ s \notin overtaken /\ table' # table
       /\ \A t \in Saver \ {s} : save'[t] = save[t]
       /\ save'[s] # save[s] /\ \A k \in Key : table[k] # "bad"
       => \A k \in Key : save[s].patch[k] = NoChange => FromMap(table)[k] = table'[k]]_setvars
=============================================================================
