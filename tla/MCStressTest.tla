---------------------------- MODULE MCStressTest ----------------------------
(***************************************************************************)
(* What db_test.py may conclude from a run, and the instances TLC checks.  *)
(***************************************************************************)
EXTENDS StressTest, TLC

MCClient == Worker \cup {Verifier}
\* Only numbers that no increment reaches are too long.
MCLongNumbers == [n \in {100} |-> 10]
Symmetry == Permutations(Worker)
-----------------------------------------------------------------------------
\* The increments that were answered OK are the increments of the database.
CountsAreExact ==
  Joined => \A k \in Rec : db[k] = InitVal + applied[k]

\* If no request timed out, then once the workers are joined every key holds one
\* increment for each COMMIT that was answered OK: no acknowledged increment is
\* lost, none is applied and not counted (db_test.py:168 and 414-415).
NoLostUpdate == timeouts = 0 => CountsAreExact

\* Whatever replies time out and are then taken for the answers to later
\* requests, every increment the test counts has been written, and a key holds
\* no value that increments cannot have given it (parse_int_from_resp would take
\* the 57 of "OK TXN 57" for a value).
CountedIsWritten ==
  \A k \in Rec :
    /\ Joined => InitVal + applied[k] <= db[k]
    /\ db[k] <= InitVal + TXN_PER_THREAD * Cardinality(Worker)

\* Texts that answer a request of the client's in state label.
AnswersTo(label) ==
  CASE label = "greeting" -> {"WELCOME"}
    [] label = "START" -> {"OK TXN", "ERR TXN_ALREADY_STARTED"}
    [] label = "GET" -> {"OK VALUE", "ERR NOT_FOUND", "ERR NO_ACTIVE_TXN"}
    [] label = "PUT" -> {"OK", "ERR PUT_FAIL", "ERR NO_ACTIVE_TXN"}
    [] label = "COMMIT" -> {"OK COMMIT", "ERR ABORT", "ERR NO_ACTIVE_TXN"}
    [] label \in {"ROLLBACK", "EXC_ROLLBACK"} -> {"ERR BAD_CMD"}
    [] OTHER -> {}

\* As long as no request has timed out, the reply a client reads is the answer
\* to the request it waits on, across conflicts, refused STARTs and ROLLBACKs
\* that the server does not know (db_test.py:114 reads the greeting for that).
RepliesAligned ==
  timeouts = 0 =>
    \A c \in Client : outbox[c] # <<>> => Head(outbox[c]).text \in AnswersTo(at[c])

\* Every worker gets through its transactions and the check of the final values
\* comes to its end: no client waits for a reply that never comes, a lost
\* alignment included.  Only a SIGPIPE in the server can prevent it.
TestFinishes == <>(at[Verifier] = "closed" \/ crashed)
=============================================================================
