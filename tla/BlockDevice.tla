----------------------------- MODULE BlockDevice ----------------------------
(***************************************************************************)
(* What the block service promises the file service: one read at a time is    *)
(* asked for (Blk::read of user/svc/fs/src/main.rs) and answered once; a good   *)
(* answer means that the shared buffer holds the blocks asked for.  Nvme.tla    *)
(* implements it, and Files.tla is built on it.  Where the driver can keep      *)
(* the promise no longer, it is `faulty`, and a good answer means nothing.     *)
(***************************************************************************)
EXTENDS Integers, Sequences

VARIABLES want,    \* the read that is asked for
          answer,  \* "none", "ok" or "error"
          holds,   \* the buffer holds the blocks asked for
          faulty

devVars == <<want, answer, holds, faulty>>

Nothing == [lba |-> 0, n |-> 0]
Blocks(lba, n) == [i \in 1 .. n |-> lba + i - 1]

DevInit ==
    /\ want = Nothing /\ answer = "none"
    /\ holds = FALSE /\ faulty = FALSE

\* send(BLK, READ, lba, n).
AskFor(lba, n) ==
    /\ want = Nothing
    /\ want' = [lba |-> lba, n |-> n]
    /\ UNCHANGED <<answer, holds, faulty>>

\* The driver answers.
Answer ==
    /\ want # Nothing /\ answer = "none"
    /\ answer' \in {"ok", "error"}
    /\ faulty' \in {faulty, TRUE}
    /\ holds' \in BOOLEAN
    /\ answer' = "error" => ~holds'
    /\ answer' = "ok" => holds' \/ faulty'
    /\ UNCHANGED want

\* The promise lapses; from then on the buffer may change under the answer.
Lapse ==
    /\ faulty' = TRUE
    /\ holds' \in (IF answer = "ok" THEN BOOLEAN ELSE {FALSE})
    /\ UNCHANGED <<want, answer>>

\* recv(reply).
TakeAnswer ==
    /\ answer # "none"
    /\ want' = Nothing /\ answer' = "none" /\ holds' = FALSE
    /\ UNCHANGED faulty

AskForAny == want' \in [lba : Nat, n : Nat \ {0}] /\ AskFor(want'.lba, want'.n)

DevSpec == DevInit /\ [][AskForAny \/ Answer \/ Lapse \/ TakeAnswer]_devVars
=============================================================================
