-------------------------- MODULE NetworkWatchdog --------------------------
(***************************************************************************)
(* The host watchdog (network_watchdog.py).  The target, gateway and DNS   *)
(* network namespaces accept traffic only while elements with a timeout    *)
(* are present in their nft sets.  The watchdog checks every audit probe,  *)
(* then rewrites the sets of the three namespaces one after the other,     *)
(* sleeps and starts again; the first thing wrong makes it exit, after     *)
(* which the kernel lets the elements expire.                              *)
(*                                                                         *)
(* Time is kept as durations that Tick counts down (what is left of a      *)
(* lease, of the sleep) or up (since the pass began, since an event), so   *)
(* behaviours are unbounded.                                               *)
(***************************************************************************)
EXTENDS Naturals

CONSTANTS
    NumProbes,      \* PCAP and eBPF processes and the containers they watch
    NumNamespaces,  \* three in run()
    Lease,          \* lease_seconds, the timeout of the nft elements
    Interval,       \* min(1, lease_seconds / 3)
    PassLimit       \* longest time from a pass's first check to its last refresh

Probes == 1..NumProbes
Namespaces == 1..NumNamespaces
Horizon == Lease + PassLimit   \* ages are counted up to here

ASSUME WatchdogAssumption ==
    /\ NumProbes \in Nat \ {0}
    /\ NumNamespaces \in Nat \ {0}
    /\ Lease \in Nat \ {0}
    /\ Interval \in Nat
    /\ PassLimit \in Nat

VARIABLES
    probe,      \* "running", "stopped" (SIGSTOP) or "gone" (exit, or its pid reused)
    netns,      \* is the process that holds the namespace the recorded one
    left,       \* seconds until the namespace's elements expire
    at,         \* "check", "refresh", "sleep" or "exited"
    index,      \* the probe or the namespace that is next
    elapsed,    \* since this pass began
    asleep,     \* what is left of the sleep
    ready,      \* the ready file exists
    goneFor,    \* history: for how long the probe has been gone
    seenAgo     \* history: how long ago the probe last passed its check

vars == <<probe, netns, left, at, index, elapsed, asleep, ready, goneFor, seenAgo>>
host == <<probe, netns, goneFor>>

Open(n) == left[n] > 0

\* The sets exist and are empty when the watchdog is started.
Init ==
    /\ probe = [p \in Probes |-> "running"]
    /\ netns = [n \in Namespaces |-> TRUE]
    /\ left = [n \in Namespaces |-> 0]
    /\ at = "check" /\ index = 1 /\ elapsed = 0 /\ asleep = 0
    /\ ready = FALSE
    /\ goneFor = [p \in Probes |-> 0]
    /\ seenAgo = [p \in Probes |-> Horizon]

Exit ==
    /\ at' = "exited"
    /\ UNCHANGED <<host, left, index, elapsed, asleep, ready, seenAgo>>

\* Mutant: only the pid's existence counts, whoever has it now.
ProcessMatches_PidOnly(p) == p \in Probes

\* The pid, its start time and executable are the recorded ones and the process
\* is neither stopped nor a zombie.
ProcessMatches(p) == probe[p] = "running"

CheckProbe ==
    /\ at = "check" /\ ProcessMatches(index)
    /\ at' = IF index = NumProbes THEN "refresh" ELSE "check"
    /\ index' = IF index = NumProbes THEN 1 ELSE index + 1
    /\ seenAgo' = [seenAgo EXCEPT ![index] = 0]
    /\ UNCHANGED <<host, left, elapsed, asleep, ready>>

ProbeMissing == at = "check" /\ ~ProcessMatches(index) /\ Exit

\* nft -f is one transaction: the sets are flushed and filled again.
Refresh ==
    /\ at = "refresh" /\ netns[index]
    /\ left' = [left EXCEPT ![index] = Lease]
    /\ at' = IF index = NumNamespaces THEN "sleep" ELSE "refresh"
    /\ index' = IF index = NumNamespaces THEN 1 ELSE index + 1
    /\ ready' = (ready \/ index = NumNamespaces)
    /\ asleep' = IF index = NumNamespaces THEN Interval ELSE 0
    /\ UNCHANGED <<host, elapsed, seenAgo>>

\* The namespace's process is another one, or nft fails: nothing is changed.
RefreshFails == at = "refresh" /\ Exit

\* Mutant: after the sleep the namespaces are refreshed without a new check.
WakeUp_NoCheck ==
    /\ at = "sleep" /\ asleep = 0
    /\ at' = "refresh" /\ elapsed' = 0
    /\ UNCHANGED <<host, left, index, asleep, ready, seenAgo>>

WakeUp ==
    /\ at = "sleep" /\ asleep = 0
    /\ at' = "check" /\ elapsed' = 0
    /\ UNCHANGED <<host, left, index, asleep, ready, seenAgo>>

-----------------------------------------------------------------------------
(* The host around it. *)

WatchdogKilled == at # "exited" /\ Exit

SetProbe(p, s, age) ==
    /\ probe' = [probe EXCEPT ![p] = s]
    /\ goneFor' = [goneFor EXCEPT ![p] = age]
    /\ UNCHANGED <<netns, left, at, index, elapsed, asleep, ready, seenAgo>>

ProbeStops(p) == probe[p] = "running" /\ SetProbe(p, "stopped", 0)

ProbeContinues(p) == probe[p] = "stopped" /\ SetProbe(p, "running", 0)

ProbeGoes(p) == probe[p] # "gone" /\ SetProbe(p, "gone", 0)

NamespaceGoes(n) ==
    /\ netns[n]
    /\ netns' = [netns EXCEPT ![n] = FALSE]
    /\ UNCHANGED <<probe, goneFor, left, at, index, elapsed, asleep, ready, seenAgo>>

\* A pass may be slow, but no slower than PassLimit; a sleep ends when it is over.
TimeMayPass ==
    /\ at \in {"check", "refresh"} => elapsed < PassLimit
    /\ at = "sleep" => asleep > 0

Down(d) == IF d > 0 THEN d - 1 ELSE 0
Up(d)   == IF d < Horizon THEN d + 1 ELSE Horizon

Tick ==
    /\ TimeMayPass
    /\ left' = [n \in Namespaces |-> Down(left[n])]
    /\ elapsed' = IF at \in {"check", "refresh"} THEN elapsed + 1 ELSE elapsed
    /\ asleep' = Down(asleep)
    /\ goneFor' = [p \in Probes |-> IF probe[p] = "gone" THEN Up(goneFor[p]) ELSE 0]
    /\ seenAgo' = [p \in Probes |-> Up(seenAgo[p])]
    /\ UNCHANGED <<probe, netns, at, index, ready>>

Watchdog == CheckProbe \/ ProbeMissing \/ Refresh \/ RefreshFails \/ WakeUp

Next ==
    \/ Watchdog \/ WatchdogKilled \/ Tick
    \/ \E p \in Probes : ProbeStops(p) \/ ProbeContinues(p) \/ ProbeGoes(p)
    \/ \E n \in Namespaces : NamespaceGoes(n)

Spec == Init /\ [][Next]_vars

\* The watchdog process is scheduled and time passes.
FairSpec == Spec /\ WF_vars(Watchdog) /\ WF_vars(Tick)

-----------------------------------------------------------------------------
TypeOK ==
    /\ probe \in [Probes -> {"running", "stopped", "gone"}]
    /\ netns \in [Namespaces -> BOOLEAN]
    /\ left \in [Namespaces -> 0..Lease]
    /\ \/ at = "check" /\ index \in Probes
       \/ at = "refresh" /\ index \in Namespaces
       \/ at = "sleep" /\ index = 1
       \/ at = "exited" /\ index \in Nat
    /\ elapsed \in 0..PassLimit
    /\ asleep \in 0..Interval
    /\ ready \in BOOLEAN
    /\ goneFor \in [Probes -> 0..Horizon]
    /\ seenAgo \in [Probes -> 0..Horizon]

\* Every namespace that accepts traffic owes it to a pass of run() in which every
\* probe was seen running, less than Lease + PassLimit ago.
OpenIsAudited == \A n \in Namespaces, p \in Probes : Open(n) => seenAgo[p] < Horizon

\* Once a probe is gone no namespace accepts traffic for longer than the lease
\* and one pass of run(): the probe may go between its check and the last
\* refresh of the same pass.
ClosedAfterProbeGone == \A p \in Probes :
    probe[p] = "gone" /\ goneFor[p] >= Horizon => \A n \in Namespaces : ~Open(n)

\* When the ready file appears, on which the start command opens the target's
\* route, every namespace was refreshed in the pass of run() that ends: no more
\* has run off its lease than the pass took.  A pass is not bounded by the code
\* (nft has no timeout), so the first namespace may have expired again.
ReadyMeansRefreshed ==
    [][~ready /\ ready' => \A n \in Namespaces : left'[n] + elapsed' >= Lease]_vars

\* A probe that is gone closes every namespace for good, although the watchdog
\* may be killed or fail instead of noticing.
GoneClosesForGood == \A p \in Probes :
    (probe[p] = "gone") ~> [](\A n \in Namespaces : ~Open(n))

=============================================================================
