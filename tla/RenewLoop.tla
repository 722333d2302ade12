------------------------------ MODULE RenewLoop ------------------------------
(***************************************************************************)
(* The goroutine that renews while a session lives: session.renewLoop      *)
(* (internal/connect/deliver.go) with IsWakeEvent and attemptRenew         *)
(* (connect.go). Its tickers run on the monotonic clock, which stands      *)
(* still while the machine sleeps; a wake-up shows as a gap between two    *)
(* samples of the wall clock.                                              *)
(*                                                                         *)
(* Abstraction: a goroutine that can go on does so before time passes; only*)
(* calls to the worker take time. A credential is due, refused for good,   *)
(* or neither; what a renewal writes is TokenRenewal's. A clock that makes *)
(* certificates look invalid ends a round like a refused credential.       *)
(***************************************************************************)
EXTENDS Naturals

CONSTANTS
  Orgs,        \* the enrolled organizations
  NoOrg,       \* no call is under way
  Ping,        \* interval of the wake ticker, units of time
  RenewEvery,  \* interval of the renew ticker
  MaxCall,     \* timeout of a call to the worker
  Naps         \* bound: how long the machine may sleep

ASSUME LoopAssumption ==
  /\ NoOrg \notin Orgs
  /\ Ping \in Nat \ {0}
  /\ RenewEvery \in Nat \ {0}
  /\ MaxCall \in Nat
  /\ Naps \subseteq Nat

VARIABLES
  pc,         \* "select", "round" or "returned"
  pingIn,     \* monotonic time to the next tick of wakeTicker
  pingReady,  \* its channel, which holds one tick
  renewIn, renewReady,
  since,      \* wall time since lastWall was sampled
  act,        \* the organization that was selected when the round began; other
              \* processes may have switched before
  todo,       \* organizations the round has yet to do
  call,       \* the organization whose renewal is in flight
  left,       \* time until that call times out
  due, dead,  \* certificates past half of their life; refused credentials
  cancelled,  \* the session ended or the agent stops
  woke,       \* history: a long sleep, and no round since
  waited,     \* history: time spent in the select since then
  fooled,     \* history: the clock was set since the last sample
  odd         \* history: since the last sample the machine slept, the clock was
              \* set, or a round took longer than Ping

timers == <<pingIn, pingReady, renewIn, renewReady>>
round == <<act, todo, call, left>>
outside == <<due, dead, cancelled>>
wake == <<woke, waited, fooled>>
vars == <<pc, pingIn, pingReady, renewIn, renewReady, since, act, todo, call, left,
          due, dead, cancelled, woke, waited, fooled, odd>>

Cap == 2 * Ping + 1      \* longer gaps are alike
AtMostCap(t) == IF t > Cap THEN Cap ELSE t

\* Mutant: one interval between two ticks is enough.
IsWakeEventEarly(gap) == gap >= Ping

IsWakeEvent(gap) == gap > 2 * Ping

Init ==
  /\ pc = "select"
  /\ pingIn = Ping /\ pingReady = FALSE
  /\ renewIn = RenewEvery /\ renewReady = FALSE
  /\ since = 0
  /\ act = NoOrg /\ todo = {} /\ call = NoOrg /\ left = 0
  /\ due \in SUBSET Orgs
  /\ dead = {}
  /\ cancelled = FALSE
  /\ woke = FALSE /\ waited = 0 /\ fooled = FALSE /\ odd = FALSE

-----------------------------------------------------------------------------
(* The select of renewLoop: one of the ready channels, at random. *)

\* lastWall is sampled before the renewals, not after them.
Sample == since' = 0 /\ fooled' = FALSE /\ odd' = FALSE

BeginRound ==
  /\ pc' = "round"
  /\ act' \in Orgs
  /\ todo' = Orgs
  /\ woke' = FALSE
  /\ waited' = 0
  /\ UNCHANGED <<call, left>>

\* Mutant: the end of the session is only looked at when no tick is ready.
SelectDoneLast ==
  /\ pc = "select"
  /\ cancelled
  /\ ~pingReady /\ ~renewReady
  /\ pc' = "returned"
  /\ UNCHANGED <<timers, since, round, outside, wake, odd>>

SelectDone ==
  /\ pc = "select"
  /\ cancelled
  /\ pc' = "returned"
  /\ UNCHANGED <<timers, since, round, outside, wake, odd>>

SelectPing ==
  /\ pc = "select"
  /\ pingReady
  /\ pingReady' = FALSE
  /\ Sample
  /\ IF IsWakeEvent(since)
     THEN BeginRound
     ELSE UNCHANGED <<pc, round, woke, waited>>
  /\ UNCHANGED <<pingIn, renewIn, renewReady, outside>>

SelectRenew ==
  /\ pc = "select"
  /\ renewReady
  /\ renewReady' = FALSE
  /\ Sample
  /\ BeginRound
  /\ UNCHANGED <<pingIn, pingReady, renewIn, outside>>

-----------------------------------------------------------------------------
(* attemptRenew: every enrolled organization, one call after the other. *)

\* MaybeRenew has nothing to do for it, or cannot even load it.
Skip(o) ==
  /\ pc = "round"
  /\ call = NoOrg
  /\ o \in todo \ due
  /\ todo' = todo \ {o}
  /\ UNCHANGED <<pc, timers, since, act, call, left, outside, wake, odd>>

Call(o) ==
  /\ pc = "round"
  /\ call = NoOrg
  /\ o \in todo \cap due
  /\ call' = o
  /\ left' = MaxCall
  /\ UNCHANGED <<pc, timers, since, act, todo, outside, wake, odd>>

\* The call returns and the round goes on with the others.
NextOrg == todo' = todo \ {call} /\ call' = NoOrg /\ left' = 0

Renewed(o) ==
  /\ call = o
  /\ o \in Orgs \ dead
  /\ due' = due \ {o}
  /\ NextOrg
  /\ UNCHANGED <<pc, timers, since, act, dead, cancelled, wake, odd>>

\* Mutant: the first error ends the round.
FailsAll ==
  /\ call # NoOrg
  /\ todo' = {} /\ call' = NoOrg /\ left' = 0
  /\ UNCHANGED <<pc, timers, since, act, outside, wake, odd>>

\* The network, a timeout, a rate limit, or a refusal of another organization.
Fails ==
  /\ call # NoOrg
  /\ NextOrg
  /\ UNCHANGED <<pc, timers, since, act, outside, wake, odd>>

\* The selected organization is refused for good: the connection is closed, so
\* that Run settles.
Refused ==
  /\ call # NoOrg
  /\ call \in dead
  /\ call = act
  /\ pc' = "returned"
  /\ NextOrg
  /\ UNCHANGED <<timers, since, act, outside, wake, odd>>

\* Mutant: lastWall is sampled after the renewals.
RoundEndsSampled ==
  /\ pc = "round"
  /\ todo = {}
  /\ pc' = "select"
  /\ act' = NoOrg
  /\ Sample
  /\ UNCHANGED <<timers, todo, call, left, outside, woke, waited>>

RoundEnds ==
  /\ pc = "round"
  /\ todo = {}
  /\ pc' = "select"
  /\ act' = NoOrg
  /\ odd' = (odd \/ since > Ping)
  /\ UNCHANGED <<timers, since, todo, call, left, outside, wake>>

-----------------------------------------------------------------------------
(* Time. *)

\* A unit of time passes awake. A tick that finds its channel full is dropped.
Tick ==
  /\ \/ pc = "select" /\ ~pingReady /\ ~renewReady /\ ~cancelled
     \/ pc = "round" /\ call # NoOrg /\ left > 0
  /\ pingIn' = IF pingIn = 1 THEN Ping ELSE pingIn - 1
  /\ pingReady' = (pingReady \/ pingIn = 1)
  /\ renewIn' = IF renewIn = 1 THEN RenewEvery ELSE renewIn - 1
  /\ renewReady' = (renewReady \/ renewIn = 1)
  /\ since' = AtMostCap(since + 1)
  /\ left' = IF call = NoOrg THEN left ELSE left - 1
  /\ waited' = IF woke /\ pc = "select" THEN waited + 1 ELSE waited
  /\ UNCHANGED <<pc, act, todo, call, outside, woke, fooled, odd>>

\* The machine sleeps for a while; only the wall clock goes on.
Sleep(t) ==
  /\ pc # "returned"
  /\ since' = AtMostCap(since + t)
  /\ woke' = (woke \/ t > 2 * Ping)
  /\ waited' = IF t > 2 * Ping THEN 0 ELSE waited
  /\ odd' = TRUE
  /\ UNCHANGED <<pc, timers, round, outside, fooled>>

\* Someone sets the clock, forward or back.
SetClock ==
  /\ pc # "returned"
  /\ since' \in 0 .. Cap
  /\ fooled' = TRUE
  /\ woke' = FALSE
  /\ waited' = 0
  /\ odd' = TRUE
  /\ UNCHANGED <<pc, timers, round, outside>>

-----------------------------------------------------------------------------
(* The service, and the commands in other processes. *)

HalfLife(o) ==
  /\ pc # "returned"
  /\ o \notin due
  /\ due' = due \cup {o}
  /\ UNCHANGED <<pc, timers, since, round, dead, cancelled, wake, odd>>

Revoke(o) ==
  /\ pc # "returned"
  /\ o \notin dead
  /\ dead' = dead \cup {o}
  /\ UNCHANGED <<pc, timers, since, round, due, cancelled, wake, odd>>

Cancel ==
  /\ pc # "returned"
  /\ ~cancelled
  /\ cancelled' = TRUE
  /\ UNCHANGED <<pc, timers, since, round, due, dead, wake, odd>>

Returned ==
  /\ pc = "returned"
  /\ UNCHANGED vars

-----------------------------------------------------------------------------
Round ==
  \/ \E o \in Orgs : Skip(o) \/ Call(o) \/ Renewed(o)
  \/ Fails \/ Refused \/ RoundEnds

Loop == SelectDone \/ SelectPing \/ SelectRenew \/ Round

Next ==
  \/ Loop
  \/ Tick \/ SetClock
  \/ \E t \in Naps : Sleep(t)
  \/ \E o \in Orgs : HalfLife(o) \/ Revoke(o)
  \/ Cancel
  \/ Returned

Spec == Init /\ [][Next]_vars

\* The goroutine runs and time passes; select is fair among the channels that
\* are ready again and again; a renewal that is tried again and again succeeds.
Fairness ==
  /\ WF_vars(Loop)
  /\ WF_vars(Tick)
  /\ SF_vars(SelectDone)
  /\ SF_vars(SelectRenew)
  /\ \A o \in Orgs : SF_vars(Renewed(o))

FairSpec == Spec /\ Fairness

-----------------------------------------------------------------------------
(* Properties. *)

\* Values are of their kinds, and a call is only in flight in a round that has
\* yet to do its organization: none is left behind when the goroutine returns.
TypeOK ==
  /\ pc \in {"select", "round", "returned"}
  /\ pingIn \in 1 .. Ping /\ renewIn \in 1 .. RenewEvery
  /\ pingReady \in BOOLEAN /\ renewReady \in BOOLEAN
  /\ since \in 0 .. Cap
  /\ act \in Orgs \cup {NoOrg} /\ call \in Orgs \cup {NoOrg}
  /\ todo \subseteq Orgs
  /\ call # NoOrg => pc = "round" /\ call \in todo
  /\ left \in 0 .. MaxCall
  /\ due \subseteq Orgs /\ dead \subseteq Orgs
  /\ cancelled \in BOOLEAN
  /\ woke \in BOOLEAN /\ fooled \in BOOLEAN /\ odd \in BOOLEAN
  /\ waited \in Nat

\* After a long sleep a round begins within one interval of the wake ticker
\* (DefaultRenewInterval: "suspend is noticed well before this fires"), also if
\* the machine fell asleep in the middle of a renewal. A clock that is set can
\* hide the gap.
WakeRenews == woke /\ ~fooled => waited <= Ping

\* A late tick alone is not taken for a wake-up: without a sleep, a clock that
\* was set or renewals that took longer than the interval, the wake ticker never
\* starts a round, and renewals keep the pace of the renew ticker.
NoFalseWake ==
  [][pc = "select" /\ pc' = "round" /\ pingReady # pingReady' => odd]_vars

\* A session renews every organization of the machine, not only its own: errors
\* of one do not keep another one from its turn for ever.
OthersRenewed ==
  \A o \in Orgs : o \in due ~> (o \notin due \/ o \in dead \/ cancelled \/ pc = "returned")

\* When its session ends the goroutine does too, however slow the worker is.
RenewLoopEnds == cancelled ~> pc = "returned"
=============================================================================
