--------------------------- MODULE IdempotentKeys ---------------------------
(***************************************************************************)
(* What the queue promises for an idempotency key, with no lanes, workers, *)
(* locks or waiter lists: docs/guides/idempotency.mdx as the code means    *)
(* it.  A key is free, or claimed by one call, or done with the output of  *)
(* the call that had claimed it, and done is for good.  An answer Ok is    *)
(* that output.  A failure frees the key, and a key whose job disappears   *)
(* with the runtime stays claimed by nobody.                               *)
(***************************************************************************)
CONSTANTS Keys, Pushes, Key, NoJob

VARIABLES
    phase,      \* "free", "busy", "done" or "stranded"
    owner,      \* the call that has claimed a busy key
    winner,     \* the call whose job gave a done key its output
    answer      \* what each call has been answered

avars == <<phase, owner, winner, answer>>

Open(p) == answer[p].kind = "empty"

Init ==
    /\ phase = [k \in Keys |-> "free"]
    /\ owner = [k \in Keys |-> NoJob]
    /\ winner = [k \in Keys |-> NoJob]
    /\ answer = [p \in Pushes |-> [kind |-> "empty", by |-> NoJob]]

\* A key that nobody works on and that has no output is claimed by one call.
Claim(p) ==
    /\ phase[Key[p]] = "free"
    /\ phase' = [phase EXCEPT ![Key[p]] = "busy"]
    /\ owner' = [owner EXCEPT ![Key[p]] = p]
    /\ UNCHANGED <<winner, answer>>

\* The owner's job succeeds; there is an output from now on.
Succeed(p) ==
    /\ phase[Key[p]] = "busy" /\ owner[Key[p]] = p
    /\ phase' = [phase EXCEPT ![Key[p]] = "done"]
    /\ owner' = [owner EXCEPT ![Key[p]] = NoJob]
    /\ winner' = [winner EXCEPT ![Key[p]] = p]
    /\ UNCHANGED answer

\* The owner's job fails, or its push is given up: the key is free again.  The
\* calls in W, all of this key, may learn at once that the job is lost.
Yield(p, W) ==
    /\ phase[Key[p]] = "busy" /\ owner[Key[p]] = p
    /\ \A q \in W : Key[q] = Key[p] /\ Open(q)
    /\ phase' = [phase EXCEPT ![Key[p]] = "free"]
    /\ owner' = [owner EXCEPT ![Key[p]] = NoJob]
    /\ answer' = [q \in Pushes |-> IF q \in W THEN [kind |-> "lost", by |-> NoJob]
                                              ELSE answer[q]]
    /\ UNCHANGED winner

\* Calls of one key are told the same thing by a call of that key: Ok only when
\* that call is the winner, failed whenever.
Reply(p, W, kind) ==
    /\ \A q \in W : Key[q] = Key[p] /\ Open(q)
    /\ kind = "ok" => phase[Key[p]] = "done" /\ winner[Key[p]] = p
    /\ answer' = [q \in Pushes |-> IF q \in W THEN [kind |-> kind, by |-> p]
                                              ELSE answer[q]]
    /\ UNCHANGED <<phase, owner, winner>>

\* Jobs go down with the runtime: the keys in K keep a claim nobody owns.
Strand(K) ==
    /\ \A k \in K : phase[k] = "busy"
    /\ phase' = [k \in Keys |-> IF k \in K THEN "stranded" ELSE phase[k]]
    /\ owner' = [k \in Keys |-> IF k \in K THEN NoJob ELSE owner[k]]
    /\ UNCHANGED <<winner, answer>>

\* Whoever still waits when the queue itself is gone learns that at once.
Close(W) ==
    /\ \A q \in W : Open(q)
    /\ answer' = [q \in Pushes |-> IF q \in W THEN [kind |-> "lost", by |-> NoJob]
                                              ELSE answer[q]]
    /\ UNCHANGED <<phase, owner, winner>>

Next ==
    \/ \E p \in Pushes : Claim(p) \/ Succeed(p)
    \/ \E p \in Pushes, W \in SUBSET Pushes : Yield(p, W)
    \/ \E p \in Pushes, W \in SUBSET Pushes, kind \in {"ok", "failed"} :
          Reply(p, W, kind)
    \/ \E K \in SUBSET Keys : Strand(K)
    \/ \E W \in SUBSET Pushes : Close(W)

Spec == Init /\ [][Next]_avars
=============================================================================
