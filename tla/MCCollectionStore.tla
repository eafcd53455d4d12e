-------------------------- MODULE MCCollectionStore --------------------------
(***************************************************************************)
(* Small instances of CollectionStore.  Requests only name ids of a fixed  *)
(* creating call, so that updates, deletions and comments often hit.       *)
(***************************************************************************)
EXTENDS CollectionStore, TLC

CONSTANTS c1, c2, c3, c4, k1, k2, p1, p2, s1, s2

\* Creations of one or two keys, and what undoes or changes them.
FeedbackRequests ==
  [kind : {"createFeedbackIfAbsent"}, clientId : {k1}, project : {p1, p2}, screenshot : BOOLEAN]
    \cup [kind : {"createFeedback"}, clientId : {k1, k2}, project : {p1}, screenshot : {FALSE}]
    \cup [kind : {"updateFeedback"}, id : {c1}, status : {"resolved"}]
    \cup [kind : {"deleteFeedback"}, id : {c1, c2}]
    \cup [kind : {"deleteAllFeedbacks"}, project : {p1}]

\* Two feedbacks and comments on either, beside deletions.
ThreadRequests ==
  [kind : {"createFeedbackIfAbsent"}, clientId : {k1, k2}, project : {p1}, screenshot : {FALSE}]
    \cup [kind : {"addCommentIfAbsent"}, id : {c1, c2}, clientId : {k1}, role : {"client"}]
    \cup [kind : {"addCommentIfAbsent"}, id : {c1}, clientId : {k2}, role : {"client"}]
    \cup [kind : {"deleteComment"}, id : {c1}, comment : {c3}]
    \cup [kind : {"deleteFeedback"}, id : {c1}]

Stores == Permutations(Store)
=============================================================================
