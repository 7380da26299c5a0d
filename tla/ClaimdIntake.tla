---------------------------- MODULE ClaimdIntake ----------------------------
(***************************************************************************)
(* What the claim service tells those its limits refuse: how long to wait  *)
(* (http.rs, rate_limited; policy.rs, retry_after_seconds; db.rs,          *)
(* oldest_since).                                                          *)
(*                                                                         *)
(* It is a function of the ledger and the clock of Claimd, whose           *)
(* behaviours this module takes as they are.                               *)
(***************************************************************************)
EXTENDS Claimd, FiniteSetsExt

-----------------------------------------------------------------------------
\* A limit: whose claims it counts, over how long, and how many it allows.
Limits(a, i) ==
  {[scope |-> OfRecipient(a), window |-> Day,  allowed |-> PerRecipient],
   [scope |-> OfIp(i),        window |-> Day,  allowed |-> PerIp],
   [scope |-> Recorded,       window |-> Hour, allowed |-> PerHour],
   [scope |-> Recorded,       window |-> Day,  allowed |-> PerDay]}

\* oldest_since; by the time it is asked the claims that were counted may have failed.
OldestSince(scope, since, now) ==
  Min({ledger[r].created : r \in {q \in scope : Counted(ledger[q]) /\ ledger[q].created >= since}}
        \cup {now})

\* Mutant: seconds are rounded down.
RetryAfterDown(oldest, window, now) ==
  LET until == oldest + window - now IN IF until \div Second <= 0 THEN 1 ELSE until \div Second

\* retry_after_seconds: whole seconds, rounded up, and at least 1.
RetryAfter(oldest, window, now) ==
  LET until == oldest + window - now
      secs  == until \div Second
  IN  IF secs <= 0 THEN 1
      ELSE IF until % Second > 0 THEN secs + 1
      ELSE secs

Advice(limit, now) ==
  RetryAfter(OldestSince(limit.scope, now - limit.window, now), limit.window, now)

-----------------------------------------------------------------------------
\* A caller that is refused by a limit that is just reached is told the second in which the
\* limit next admits it: when that time is past, and nothing more was counted, the limit
\* admits; a whole second earlier it does not yet.
AdviceIsExact ==
  \A a \in Recipient, i \in Ip : \A limit \in Limits(a, i) :
    CountSince(limit.scope, clock - limit.window) = limit.allowed /\ limit.allowed > 0 =>
      LET wait == Second * Advice(limit, clock) IN
      /\ CountSince(limit.scope, clock + wait + 1 - limit.window) < limit.allowed
      /\ Advice(limit, clock) > 1 =>
           CountSince(limit.scope, clock + wait - Second + 1 - limit.window) >= limit.allowed

=============================================================================
