---------------------------- MODULE MCRetryQueue ----------------------------
(* Small instances of RetryQueue. *)
EXTENDS RetryQueue

CONSTANTS s1, s2, t1, t2, ep1, ep2, ann, bob

\* One tab submits, twice each, and another only replays: one site, two authors
\* and a visitor who may be either.
TwoTabs ==
  [pageOf |-> [s \in Submission |-> t1],
   endpointOf |-> [s \in Submission |-> ep1],
   flushEndpoint |-> [p \in Page |-> ep1],
   authorOf |-> [s \in Submission |-> IF s = s2 THEN bob ELSE ann],
   visitor |-> [p \in Page |-> IF p = t1 THEN None ELSE ann],
   screenshots |-> Submission, versions |-> 2, retries |-> 0, spaces |-> {0, 1, 4, 9}]

\* Each site has its tab, and an attempt is resent.
TwoSites ==
  [pageOf |-> [s \in Submission |-> IF s = s2 THEN t2 ELSE t1],
   endpointOf |-> [s \in Submission |-> IF s = s2 THEN ep2 ELSE ep1],
   flushEndpoint |-> [p \in Page |-> IF p = t2 THEN ep2 ELSE ep1],
   authorOf |-> [s \in Submission |-> IF s = s2 THEN bob ELSE ann],
   visitor |-> [p \in Page |-> IF p = t1 THEN None ELSE ann],
   screenshots |-> {s1}, versions |-> 1, retries |-> 1, spaces |-> {0, 3, 9}]

SettingsChecked == {TwoTabs, TwoSites}
=============================================================================
