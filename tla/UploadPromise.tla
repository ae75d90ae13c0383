--------------------------- MODULE UploadPromise ---------------------------
(***************************************************************************)
(* What the upload service promises about a session, whatever requests are *)
(* made of it and however they interleave, fail or crash:                  *)
(*   - it is decided at most once which file is the product of a session,  *)
(*     while the session is open, and two sessions never share a product;  *)
(*   - the product is published at most once, with all of its chunks, and  *)
(*     from then on its bytes stay what they were.                         *)
(* Requests, placeholders, chunks and rollbacks do not exist here.         *)
(***************************************************************************)
CONSTANTS
  Session, FileId, NoFile,
  Whole,      \* the contents with bytes for every chunk
  Nothing     \* no content

VARIABLES
  phase,      \* unused, open, decided, or closed (aborted or reclaimed)
  product,    \* the file that is the session's product
  published   \* the bytes that can be read as the session's product

pvars == <<phase, product, published>>

Init ==
  /\ phase = [s \in Session |-> "unused"]
  /\ product = [s \in Session |-> NoFile]
  /\ published = [s \in Session |-> Nothing]

Open(s) ==
  /\ phase[s] = "unused"
  /\ phase' = [phase EXCEPT ![s] = "open"]
  /\ UNCHANGED <<product, published>>

Decide(s, f) ==
  /\ phase[s] = "open"
  /\ \A t \in Session : product[t] # f
  /\ phase' = [phase EXCEPT ![s] = "decided"]
  /\ product' = [product EXCEPT ![s] = f]
  /\ UNCHANGED published

\* A session may be closed before its product is published.
Publish(s, c) ==
  /\ product[s] # NoFile
  /\ published[s] = Nothing
  /\ published' = [published EXCEPT ![s] = c]
  /\ UNCHANGED <<phase, product>>

\* Cancelled, or reclaimed by maintenance.
Close(s) ==
  /\ phase[s] \in {"open", "decided", "closed"}
  /\ phase' = [phase EXCEPT ![s] = "closed"]
  /\ UNCHANGED <<product, published>>

Next ==
  \E s \in Session :
    \/ Open(s) \/ Close(s)
    \/ \E f \in FileId : Decide(s, f)
    \/ \E c \in Whole : Publish(s, c)

Spec == Init /\ [][Next]_pvars
=============================================================================
