--------------------------- MODULE UploadContract ---------------------------
(***************************************************************************)
(* What the upload service promises about a session: the chunks an open    *)
(* session has been given stay with it, it is merged once, with all of     *)
(* them, and a session that was merged or has ended is never opened again. *)
(* It is what the browser's manager takes for granted (see UploadClient).  *)
(***************************************************************************)
CONSTANTS Session, Chunk

VARIABLES
  state,   \* unused, open, merged, or ended without a product
  has      \* the chunks recorded for an open session

cvars == <<state, has>>

\* Sessions may be there already.
Init ==
  /\ state \in [Session -> {"unused", "open", "merged", "ended"}]
  /\ has \in [Session -> SUBSET Chunk]
  /\ \A s \in Session : state[s] # "open" => has[s] = {}

Open(s) ==
  /\ state[s] = "unused"
  /\ state' = [state EXCEPT ![s] = "open"]
  /\ UNCHANGED has

Record(s, k) ==
  /\ state[s] = "open"
  /\ has' = [has EXCEPT ![s] = @ \cup {k}]
  /\ UNCHANGED state

Finish(s, how) ==
  /\ state[s] = "open"
  /\ how = "merged" => has[s] = Chunk
  /\ state' = [state EXCEPT ![s] = how]
  /\ has' = [has EXCEPT ![s] = {}]

Next ==
  \E s \in Session :
    \/ Open(s)
    \/ \E k \in Chunk : Record(s, k)
    \/ \E how \in {"merged", "ended"} : Finish(s, how)

Spec == Init /\ [][Next]_cvars
=============================================================================
