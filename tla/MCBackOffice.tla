---------------------------- MODULE MCBackOffice ----------------------------
(***************************************************************************)
(* The components around the ticket office for TLC.  They share the events,  *)
(* the staff and the clock, and no variable of one is read by another, so a   *)
(* behaviour exercises one of them: its workload.                           *)
(***************************************************************************)
EXTENDS CoverImages, Moderation, Listings, Entitlements, Statistics, RateLimiter, Process

CONSTANTS s1, s2, e1, p1, p2, m1, m2, o1, o2, o3, u1, u2, d1, d2, d3, x1, x2, x3, k1, c1,
          q1, a1, h1, h2,
          Workloads  \* the components that are exercised

VARIABLE workload

Organizers == [e \in Events |-> m1]

\* An organizer asks for the event, another one for the same, an administrator for all.
Questions == {[user |-> m1, admin |-> FALSE, event |-> e1],
              [user |-> m2, admin |-> FALSE, event |-> e1],
              [user |-> m2, admin |-> TRUE, event |-> None]}

\* What a workload leaves alone starts in one way only.
BackOfficeInit ==
  /\ workload \in Workloads
  /\ CInit /\ MInit /\ ListInit /\ EInit /\ SInit /\ RInit /\ ProcInit
  /\ workload # "covers" => ~attached
  /\ workload # "lists" => view = [list |-> "public", pick |-> None, limit |-> 0]
  /\ workload # "rights" => granted = [u \in Staff |-> {"student"}]

BackOfficeNext ==
  /\ UNCHANGED workload
  /\ \/ /\ workload = "covers" /\ CNext
        /\ UNCHANGED <<mvars, listvars, evars, svars, rvars, procvars>>
     \/ /\ workload = "moderation" /\ MNext
        /\ UNCHANGED <<cvars, listvars, evars, svars, rvars, procvars>>
     \/ /\ workload = "lists" /\ ListNext
        /\ UNCHANGED <<cvars, mvars, evars, svars, rvars, procvars>>
     \/ /\ workload = "rights" /\ ENext
        /\ UNCHANGED <<cvars, mvars, listvars, svars, rvars, procvars>>
     \/ /\ workload = "statistics" /\ SNext
        /\ UNCHANGED <<cvars, mvars, listvars, evars, rvars, procvars>>
     \/ /\ workload = "limiter" /\ RNext
        /\ UNCHANGED <<cvars, mvars, listvars, evars, svars, procvars>>
     \/ /\ workload = "process" /\ ProcNext
        /\ UNCHANGED <<cvars, mvars, listvars, evars, svars, rvars>>

BackOfficeSpec ==
  BackOfficeInit /\ [][BackOfficeNext]_<<workload, desk, cvars, mvars, listvars, evars, svars, rvars, procvars>>

\* Every variable of every component keeps its type.
BackOfficeTypeOK ==
  /\ workload = "covers" => CoversTypeOK
  /\ workload = "moderation" => ModerationTypeOK
  /\ workload = "lists" => ListingsTypeOK
  /\ workload = "rights" => EntitlementsTypeOK
  /\ workload = "statistics" => StatisticsTypeOK
  /\ workload = "limiter" => LimiterTypeOK
  /\ workload = "process" => ProcessTypeOK
=============================================================================
