----------------------------- MODULE SchemaSync -----------------------------
(***************************************************************************)
(* siteping sync (packages/cli/src/generators/prisma.ts): the models that  *)
(* the Prisma adapter needs are reconciled with the host's own schema,     *)
(* which may be several files.  Missing models, fields and indexes are     *)
(* added, fields that drifted are rebuilt around the parts the host owns,  *)
(* and the files that changed are written, one after the other.  Between   *)
(* two runs the host edits its schema.                                     *)
(*                                                                         *)
(* A model is the sequence of its properties.  An attribute is its value,  *)
(* "none" when it is absent and "bare" when it has no arguments of         *)
(* Siteping's, beside the arguments that are the host's.                   *)
(***************************************************************************)
EXTENDS Naturals, Sequences
LOCAL INSTANCE SequencesExt

CONSTANTS
  Models,      \* SITEPING_MODELS: a sequence of [name, fields, indexes]
  Providers,   \* what the datasource may say
  Edits        \* bound on the host's edits

File == <<"main", "sibling">>     \* main first: the order they are written in
Attribute == {"id", "default", "db", "updatedAt", "unique", "relation", "ignore"}
Missing == [file |-> "none", items |-> <<>>]

VARIABLES
  disk,      \* each Siteping model: the file it is in, and its properties
  provider,  \* the datasource's provider
  outcome,   \* how the last run ended: "synced", "failed", or with "nothing" to do; "edited" after an edit
  edits      \* what is left of the bound

schemaVars == <<disk, provider, outcome, edits>>

Model == Range([k \in DOMAIN Models |-> Models[k].name])
ModelDef(m) == Models[CHOOSE k \in DOMAIN Models : Models[k].name = m]
Names(items) == {items[k].name : k \in {j \in DOMAIN items : items[j].kind = "field"}}
FieldIs(item, n) == item.kind = "field" /\ item.name = n
FieldAt(items, n) == CHOOSE k \in DOMAIN items : FieldIs(items[k], n)
DefNamed(m, n) == LET fields == ModelDef(m).fields IN fields[CHOOSE k \in DOMAIN fields : fields[k].name = n]
Defined(m) == Range([k \in DOMAIN ModelDef(m).fields |-> ModelDef(m).fields[k].name])

(***************************************************************************)
(* What a field and an index should be, for a provider.                    *)
(***************************************************************************)
VarcharLength == 191
TextTypes == <<[name |-> "Text", bytes |-> 65535], [name |-> "MediumText", bytes |-> 16777215]>>
NativeTypeProviders == {"postgresql", "postgres", "mysql", "sqlserver", "none"}   \* "none": no datasource

NativeTypeFor(def) ==
  LET declared == IF provider \in NativeTypeProviders THEN def.native ELSE "none"
      holding == SelectSeq(TextTypes, LAMBDA t : t.bytes >= 4 * def.maxLength)
  IN IF provider # "mysql" \/ def.maxLength <= VarcharLength THEN declared
     ELSE IF holding = <<>> THEN "LongText" ELSE holding[1].name

BuildField(def) ==
  [kind |-> "field", name |-> def.name, type |-> def.type, optional |-> def.optional,
   array |-> def.relation = "1-to-many",
   attr |-> [id |-> IF def.isId THEN "bare" ELSE "none", default |-> def.default, db |-> NativeTypeFor(def),
             updatedAt |-> IF def.isUpdatedAt THEN "bare" ELSE "none",
             unique |-> IF def.isUnique THEN "bare" ELSE "none",
             relation |-> IF def.relation = "many-to-1" THEN "wired" ELSE "none", ignore |-> "none"],
   args |-> [a \in Attribute |-> {}], map |-> FALSE, comment |-> FALSE]

\* MySQL indexes a text column on a prefix only.
NeedsPrefix(m, column) ==
  provider = "mysql" /\ column \in Defined(m) /\ NativeTypeFor(DefNamed(m, column)) # "none"
BuildBlockIndex(m, columns) ==
  [kind |-> "index",
   columns |-> [k \in DOMAIN columns |->
     [name |-> columns[k], length |-> IF NeedsPrefix(m, columns[k]) THEN "191" ELSE "none", sort |-> FALSE]]]

(***************************************************************************)
(* Comparing a field with what it should be: without the host's parts.  A  *)
(* relation that is only named says nothing of Siteping's.                 *)
(***************************************************************************)
Owned(f) == IF f.attr.relation = "bare" THEN [f.attr EXCEPT !.relation = "none"] ELSE f.attr

FieldsMatch(f, g) == /\ f.type = g.type /\ f.optional = g.optional /\ f.array = g.array
                     /\ Owned(f) = Owned(g)

\* Fault: only what replaces an attribute of the same name is carried over.
WithArgumentsOnly(f, old) ==
  [f EXCEPT !.args = [a \in Attribute |-> IF f.attr[a] # "none" THEN old.args[a] ELSE {}],
            !.map = old.map, !.comment = old.comment]

\* f in the place of old, with the parts of old that are the host's.
WithUserOwnedParts(f, old) ==
  LET named == f.attr.relation = "none" /\ old.attr.relation # "none" /\ old.args.relation # {}
  IN [f EXCEPT !.attr.relation = IF named THEN "bare" ELSE @,
               !.args = [a \in Attribute |->
                           IF f.attr[a] # "none" \/ (a = "relation" /\ named) THEN old.args[a] ELSE {}],
               !.map = old.map, !.comment = old.comment]

(***************************************************************************)
(* One model: fields rebuilt in place, new ones before createdAt and the   *)
(* comments above it, indexes at the end.                                  *)
(***************************************************************************)
Rebuilt(m, items) ==
  [k \in DOMAIN items |->
    IF items[k].kind # "field" \/ items[k].name \notin Defined(m) THEN items[k]
    ELSE LET f == BuildField(DefNamed(m, items[k].name)) IN
         IF FieldsMatch(items[k], f) THEN items[k] ELSE WithUserOwnedParts(f, items[k])]

FieldsToAdd(m, items) ==
  LET fields == SelectSeq(ModelDef(m).fields, LAMBDA d : d.name \notin Names(items))
  IN [k \in DOMAIN fields |-> BuildField(fields[k])]

\* How many properties stay above the fields that are added.
Above(items) ==
  IF "createdAt" \notin Names(items) THEN Len(items)
  ELSE LET at == FieldAt(items, "createdAt")
       IN CHOOSE n \in 0..(at - 1) :
            /\ \A k \in (n + 1)..(at - 1) : items[k].kind = "comment"
            /\ n > 0 => items[n].kind # "comment"
WithFields(m, items) ==
  SubSeq(items, 1, Above(items)) \o FieldsToAdd(m, items) \o SubSeq(items, Above(items) + 1, Len(items))

ColumnNames(item) == [k \in DOMAIN item.columns |-> item.columns[k].name]
IsIndexOn(item, columns) == item.kind = "index" /\ ColumnNames(item) = columns
IndexAt(items, columns) == CHOOSE k \in DOMAIN items :
  IsIndexOn(items[k], columns) /\ \A j \in 1..(k - 1) : ~IsIndexOn(items[j], columns)

\* A length on a column that needs none goes, one that is there is the host's to choose.
ReconciledPrefixes(m, item) ==
  [item EXCEPT !.columns = [k \in DOMAIN @ |->
    IF NeedsPrefix(m, @[k].name) = (@[k].length # "none") THEN @[k]
    ELSE [@[k] EXCEPT !.length = IF @ = "none" THEN "191" ELSE "none"]]]

WithIndex(m, items, columns) ==
  IF \E k \in DOMAIN items : IsIndexOn(items[k], columns)
  THEN [items EXCEPT ![IndexAt(items, columns)] = ReconciledPrefixes(m, @)]
  ELSE Append(items, BuildBlockIndex(m, columns))
WithIndexes(m, items) == FoldLeft(LAMBDA s, columns : WithIndex(m, s, columns), items, ModelDef(m).indexes)

(***************************************************************************)
(* The whole schema.  A new model goes to the main file, and to the        *)
(* database schema the first of the others is in.                          *)
(***************************************************************************)
DatabaseSchemas == {m \in Model : \E k \in DOMAIN disk[m].items : disk[m].items[k].kind = "schema"}
NewModel(m) ==
  WithIndexes(m, FieldsToAdd(m, <<>>)) \o (IF DatabaseSchemas = {} THEN <<>> ELSE <<[kind |-> "schema"]>>)

Reconciled ==
  [m \in Model |->
    IF disk[m] = Missing THEN [file |-> "main", items |-> NewModel(m)]
    ELSE [disk[m] EXCEPT !.items = WithIndexes(m, WithFields(m, Rebuilt(m, @)))]]

\* What the run reports: models and fields added, fields and indexes that drifted.
Report ==
  {m \in Model : disk[m] = Missing}
  \cup {<<m, d>> \in UNION {{m} \X Defined(m) : m \in Model} :
          LET items == disk[m].items IN
          disk[m] # Missing /\ (d \in Names(items) => ~FieldsMatch(items[FieldAt(items, d)], BuildField(DefNamed(m, d))))}
  \cup {<<m, columns>> \in UNION {{m} \X Range(ModelDef(m).indexes) : m \in Model} :
          disk[m] # Missing /\ WithIndex(m, disk[m].items, columns) # disk[m].items}

\* The files are written in turn; a write that fails ends the run.
Sync ==
  LET next == Reconciled
      changed == IF Report = {} THEN <<>>
                 ELSE SelectSeq(File, LAMBDA f : \E m \in Model : next[m].file = f /\ next[m] # disk[m])
  IN \E n \in 0..Len(changed) :
       /\ disk' = [m \in Model |-> IF \E k \in 1..n : next[m].file = changed[k] THEN next[m] ELSE disk[m]]
       /\ outcome' = CASE Report = {} -> "nothing" [] n < Len(changed) -> "failed" [] OTHER -> "synced"
       /\ UNCHANGED <<provider, edits>>

(***************************************************************************)
(* What the host may do to a model that is there.                          *)
(***************************************************************************)
Edit(m, items) ==
  /\ disk[m] # Missing /\ edits > 0
  /\ edits' = edits - 1 /\ outcome' = "edited"
  /\ disk' = [disk EXCEPT ![m].items = items]
  /\ UNCHANGED provider

HostArguments(a) == CASE a = "relation" -> {"name", "onUpdate"} [] a = "id" -> {"map"} [] OTHER -> {}

ChangeField(m, k) ==
  LET items == disk[m].items
      f == items[k]
  IN /\ f.kind = "field"
     /\ \E g \in {[f EXCEPT !.optional = ~@], [f EXCEPT !.map = TRUE], [f EXCEPT !.comment = TRUE],
                  [f EXCEPT !.attr.ignore = "bare"], [f EXCEPT !.attr.default = "none"],
                  [f EXCEPT !.attr.relation = IF f.array THEN "bare" ELSE @,
                            !.args.relation = IF f.array \/ f.attr.relation # "none" THEN {"name"} ELSE @]}
                 \cup {[f EXCEPT !.args[a] = HostArguments(a)] : a \in {b \in Attribute : f.attr[b] # "none"}} :
          g # f /\ Edit(m, [items EXCEPT ![k] = g])

ChangeIndex(m, k) ==
  LET items == disk[m].items IN
  /\ items[k].kind = "index"
  /\ \E c \in DOMAIN items[k].columns, g \in {[length |-> "20", sort |-> FALSE], [length |-> "none", sort |-> TRUE]} :
       Edit(m, [items EXCEPT ![k].columns[c] = [name |-> @.name, length |-> g.length, sort |-> g.sort]])

RemoveProperty(m, k) == Edit(m, RemoveAt(disk[m].items, k))

InsertProperty(m, k) ==
  \E item \in {[kind |-> "comment"], [kind |-> "schema"], [kind |-> "other", name |-> "own"]} :
    ~Contains(disk[m].items, item) /\ Edit(m, InsertAt(disk[m].items, k, item))

MoveModel(m) ==
  /\ disk[m].file = "main" /\ edits > 0
  /\ disk' = [disk EXCEPT ![m].file = "sibling"]
  /\ edits' = edits - 1 /\ outcome' = "edited" /\ UNCHANGED provider

RemoveModel(m) ==
  /\ disk[m] # Missing /\ edits > 0
  /\ disk' = [disk EXCEPT ![m] = Missing]
  /\ edits' = edits - 1 /\ outcome' = "edited" /\ UNCHANGED provider

ChangeProvider ==
  /\ edits > 0 /\ edits' = edits - 1 /\ outcome' = "edited"
  /\ provider' \in Providers \ {provider} /\ UNCHANGED disk

SchemaInit ==
  /\ disk = [m \in Model |-> Missing]
  /\ provider \in Providers
  /\ outcome = "edited" /\ edits = Edits

SchemaNext ==
  \/ Sync
  \/ \E m \in Model : \E k \in DOMAIN disk[m].items :
       ChangeField(m, k) \/ ChangeIndex(m, k) \/ RemoveProperty(m, k) \/ InsertProperty(m, k)
  \/ \E m \in Model : MoveModel(m) \/ RemoveModel(m)
  \/ ChangeProvider
-----------------------------------------------------------------------------
(***************************************************************************)
(* Properties.                                                             *)
(***************************************************************************)
\* Nothing left to do: a run would neither report nor change anything, and every model has each of its fields
\* once, as the adapter needs it, and each of its indexes.
UpToDate ==
  /\ Report = {} /\ Reconciled = disk
  /\ \A m \in Model : LET items == disk[m].items IN
       /\ \A d \in Defined(m) : \E k \in DOMAIN items :
            /\ FieldIs(items[k], d)
            /\ items[k].optional = DefNamed(m, d).optional /\ items[k].attr.ignore = "none"
            /\ items[k].attr.db = NativeTypeFor(DefNamed(m, d))
            /\ \A j \in DOMAIN items \ {k} : ~FieldIs(items[j], d)
       /\ \A k \in DOMAIN ModelDef(m).indexes : \E j \in DOMAIN items : IsIndexOn(items[j], ModelDef(m).indexes[k])

\* What is the host's in a model: column and relation names, onUpdate, constraint names, comments on a field and
\* above a property, properties that are not Siteping's, and the options of an index that a connector accepts.
Label(item) == IF item.kind = "field" THEN item.name ELSE item.kind
HostParts(m, items) ==
  {<<items[k].name, "map">> : k \in {j \in DOMAIN items : items[j].kind = "field" /\ items[j].map}}
  \cup {<<items[k].name, "comment">> : k \in {j \in DOMAIN items : items[j].kind = "field" /\ items[j].comment}}
  \cup UNION {{<<items[k].name, a>> : a \in items[k].args.relation \cup items[k].args.id} :
                k \in {j \in DOMAIN items : items[j].kind = "field"}}
  \cup {<<"above", Label(items[k + 1])>> : k \in {j \in 1..(Len(items) - 1) : items[j].kind = "comment"}}
  \cup {<<"own", item.kind>> : item \in {i \in Range(items) : i.kind \in {"comment", "schema", "other"}}}
  \cup {<<"sorted", ColumnNames(i)>> : i \in {j \in Range(items) : j.kind = "index" /\ \E c \in Range(j.columns) : c.sort}}
  \cup {<<"prefix", ColumnNames(i)>> :
          i \in {j \in Range(items) : /\ j.kind = "index"
                                      /\ \E c \in Range(j.columns) : c.length = "20" /\ NeedsPrefix(m, c.name)}}

\* Whatever the host edited, and wherever the runs before it stopped, a run loses nothing of the host's and moves no
\* model to another file; the run after one that wrote all it had to finds nothing to do, and a run that says so is
\* right.  A host that lost a @map or the name of a relation would have a column dropped, or a schema that Prisma
\* refuses.
CompletesAndKeeps ==
  [][outcome' # "edited" =>
       /\ outcome = "synced" \/ outcome' = "nothing" => UpToDate
       /\ \A m \in Model : disk[m] # Missing => /\ HostParts(m, disk[m].items) \subseteq HostParts(m, disk'[m].items)
                                                /\ disk'[m].file = disk[m].file]_schemaVars
=============================================================================
