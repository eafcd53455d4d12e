---------------------------- MODULE MCPrismaStore ----------------------------
(* Small instances of PrismaStore, and of the schema its tables come from:  *)
(* a behaviour is about one or the other.                                  *)
EXTENDS PrismaStore, SchemaSync

CONSTANTS c1, c2, c3, c4, k1, k2

Create(k) == [kind |-> "create", clientId |-> k, screenshot |-> TRUE]
Bare(k) == [kind |-> "create", clientId |-> k, screenshot |-> FALSE]
Delete(c) == [kind |-> "delete", id |-> c]
DeleteAll == [kind |-> "deleteAll"]
Post(k, role) == [kind |-> "comment", id |-> c1, clientId |-> k, role |-> role]
Unpost(c) == [kind |-> "deleteComment", id |-> c1, comment |-> c]

\* Creations that race deletions of either kind, and a thread on one of them.
Screenshots ==
  [c \in Call |-> CASE c = c1 -> {Create(k1)}
                    [] c = c2 -> {Create(k1), Create(k2)}
                    [] c = c3 -> {Delete(c1), DeleteAll}
                    [] OTHER  -> {DeleteAll}]
Threads ==
  [c \in Call |-> CASE c = c1 -> {Bare(k1)}
                    [] c = c2 -> {Post(k1, "client"), Post(k1, "team")}
                    [] c = c3 -> {Post(k1, "client"), Post(k2, "client")}
                    [] OTHER  -> {Post(k2, "client"), Unpost(c2), Delete(c1)}]
\* One field of each sort: an id, a long text with its native type and one without, two sides of a relation.
Field(n, type) ==
  [name |-> n, type |-> type, optional |-> FALSE, default |-> "none", native |-> "none", maxLength |-> 0,
   isId |-> FALSE, isUnique |-> FALSE, isUpdatedAt |-> FALSE, relation |-> "none"]
CreatedAt == [Field("createdAt", "DateTime") EXCEPT !.default = "now()"]
TwoModels ==
  <<[name |-> "SitepingFeedback",
     fields |-> <<[Field("id", "String") EXCEPT !.isId = TRUE, !.default = "cuid()"],
                  [Field("url", "String") EXCEPT !.maxLength = 2000],
                  [Field("screenshotUrl", "String") EXCEPT !.optional = TRUE, !.native = "Text", !.maxLength = 1500000],
                  CreatedAt,
                  [Field("annotations", "SitepingAnnotation") EXCEPT !.relation = "1-to-many"]>>,
     indexes |-> <<<<"url", "createdAt">>>>],
    [name |-> "SitepingAnnotation",
     fields |-> <<[Field("feedback", "SitepingFeedback") EXCEPT !.relation = "many-to-1"], CreatedAt>>,
     indexes |-> <<>>]>>

\* A behaviour that syncs the schema has no calls.
Idle == [c \in Call |-> {}]
Mixed == {Screenshots, Threads, Idle}
WholeInit == Init /\ SchemaInit /\ (plan = Idle \/ provider = "postgresql")
WholeNext == IF plan = Idle THEN SchemaNext /\ UNCHANGED vars ELSE Next /\ UNCHANGED schemaVars
WholeSpec == WholeInit /\ [][WholeNext]_<<vars, schemaVars>>
=============================================================================
