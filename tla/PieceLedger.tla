----------------------------- MODULE PieceLedger -----------------------------
(***************************************************************************)
(* What PieceStorage promises the peer threads, without its queue, its     *)
(* in-progress set and its block vectors: a piece is open, claimed by one  *)
(* thread, saved, or claimed by a thread that forgot it.  A claim ends in  *)
(* exactly one of three ways, and a saved piece is never claimed again.    *)
(* From the first disk failure on it promises nothing.                     *)
(***************************************************************************)
CONSTANTS Threads, Pieces, NoPiece

VARIABLES
  open,   \* pieces that a thread may claim
  claim,  \* the piece each thread has claimed
  saved,  \* pieces in the output file
  intact  \* no write to the disk has failed

ledgerVars == << open, claim, saved, intact >>

LedgerInit ==
  /\ open = Pieces
  /\ claim = [t \in Threads |-> NoPiece]
  /\ saved = {}
  /\ intact = TRUE

Claim(t, p) ==
  /\ claim[t] = NoPiece
  /\ p \in open
  /\ open' = open \ {p}
  /\ claim' = [claim EXCEPT ![t] = p]
  /\ UNCHANGED << saved, intact >>

\* The attempt failed: another thread may try.
GiveBack(t) ==
  /\ claim[t] # NoPiece
  /\ open' = open \cup {claim[t]}
  /\ claim' = [claim EXCEPT ![t] = NoPiece]
  /\ UNCHANGED << saved, intact >>

Save(t) ==
  /\ claim[t] # NoPiece
  /\ saved' = saved \cup {claim[t]}
  /\ claim' = [claim EXCEPT ![t] = NoPiece]
  /\ UNCHANGED << open, intact >>

\* The thread lost its pointer: the piece is neither open nor saved for good.
Forget(t) ==
  /\ claim[t] # NoPiece
  /\ claim' = [claim EXCEPT ![t] = NoPiece]
  /\ UNCHANGED << open, saved, intact >>

\* The disk failed, in this step or before.
Broken == intact' = FALSE

LedgerNext ==
  \/ \E t \in Threads :
       \/ \E p \in Pieces : Claim(t, p)
       \/ GiveBack(t)
       \/ Save(t)
       \/ Forget(t)
  \/ Broken

LedgerSpec == LedgerInit /\ [][LedgerNext]_ledgerVars
==============================================================================
