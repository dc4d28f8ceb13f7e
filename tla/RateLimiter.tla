----------------------------- MODULE RateLimiter -----------------------------
(***************************************************************************)
(* internal/node/rate_limiter.go: a sliding window of accepted messages    *)
(* per sender.  The goroutines of a node share one limiter under a mutex,  *)
(* so that a call of Allow is one step.  Time is counted in ticks.         *)
(***************************************************************************)
EXTENDS Naturals, Sequences, FiniteSets

CONSTANTS
    Senders,   \* the keys: peers, or topics
    Limit,     \* NewRateLimiter's limit
    Interval,  \* NewRateLimiter's interval
    MaxTime    \* bound: the last tick

ASSUME LimiterAssumptions == {Limit, Interval, MaxTime} \subseteq Nat

VARIABLES
    now,       \* time.Now()
    messages,  \* per sender, when the messages still counted were accepted
    accepted   \* history: per sender, when every message was accepted

vars == <<now, messages, accepted>>

Init ==
    /\ now = 0
    /\ messages = [s \in Senders |-> <<>>]
    /\ accepted = [s \in Senders |-> <<>>]

\* The elements of a sequence at some of its positions, in their order.
InOrder(seq, kept) ==
    [k \in 1 .. Cardinality(kept) |->
        seq[CHOOSE i \in kept : Cardinality({j \in kept : j < i}) = k - 1]]

(* Mutants of Filtered: old messages are kept; the boundary is dropped.     *)
FilteredNever(s) == messages[s]

FilteredEarly(s) ==
    InOrder(messages[s], {i \in DOMAIN messages[s] : now - messages[s][i] < Interval})

\* The messages not older than the interval.
Filtered(s) ==
    InOrder(messages[s], {i \in DOMAIN messages[s] : now - messages[s][i] <= Interval})

(* Mutant of Accept: the message is counted twice.                         *)
AcceptTwice(s) ==
    /\ Len(Filtered(s)) < Limit
    /\ messages' = [messages EXCEPT ![s] = Filtered(s) \o <<now, now>>]
    /\ accepted' = [accepted EXCEPT ![s] = Append(@, now)]
    /\ UNCHANGED now

\* Allow returns true and counts the message.
Accept(s) ==
    /\ Len(Filtered(s)) < Limit
    /\ messages' = [messages EXCEPT ![s] = Append(Filtered(s), now)]
    /\ accepted' = [accepted EXCEPT ![s] = Append(@, now)]
    /\ UNCHANGED now

\* Allow returns false; a refused message is not counted.
Refuse(s) ==
    /\ Len(Filtered(s)) >= Limit
    /\ messages' = [messages EXCEPT ![s] = Filtered(s)]
    /\ UNCHANGED <<now, accepted>>

Tick ==
    /\ now < MaxTime
    /\ now' = now + 1
    /\ UNCHANGED <<messages, accepted>>

Next == Tick \/ \E s \in Senders : Accept(s) \/ Refuse(s)

Spec == Init /\ [][Next]_vars

-----------------------------------------------------------------------------

\* The counted messages of a sender are the last ones accepted, in their order, at most
\* Limit: what Allow filters out never comes back, and what it counts was accepted once.
TypeOK ==
    /\ now \in 0 .. MaxTime
    /\ messages \in [Senders -> Seq(0 .. now)]
    /\ accepted \in [Senders -> Seq(0 .. now)]
    /\ \A s \in Senders :
          LET dropped == Len(accepted[s]) - Len(messages[s])
          IN  /\ Len(messages[s]) <= Limit /\ Len(messages[s]) <= Len(accepted[s])
              /\ \A i \in DOMAIN messages[s] : messages[s][i] = accepted[s][dropped + i]

\* Whatever the other senders do, no Limit + 1 messages of a sender are accepted
\* within one interval, wherever the interval starts.
NeverAboveLimit ==
    \A s \in Senders : \A i \in DOMAIN accepted[s] :
        i + Limit \in DOMAIN accepted[s] => accepted[s][i + Limit] - accepted[s][i] > Interval

\* The next message of a sender is refused only when Limit of its messages were
\* accepted within the interval that ends now: refused messages and other senders use
\* up nothing.
RefusedOnlyAtLimit ==
    \A s \in Senders : Len(Filtered(s)) >= Limit =>
        Cardinality({i \in DOMAIN accepted[s] : now - accepted[s][i] <= Interval}) >= Limit
=============================================================================
