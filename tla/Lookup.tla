------------------------------- MODULE Lookup -------------------------------
(***************************************************************************)
(* Structured lookup: the vault read into documents, the index that each of *)
(* the two backends (store.Memory, store.Ladybug) builds of them, and the   *)
(* tool kb_enumerate, whose call asks the store once for each filter and    *)
(* once for the order, while the vault may be reindexed in between.         *)
(*                                                                         *)
(* A note is what a file says in its frontmatter.  A spelling is a string;  *)
(* Key is normalizeKey, the spellings that it merges.  A path is a number,  *)
(* in the order of the strings; Walk is the order that the vault is read    *)
(* in, which is another one (a directory comes before "directory.md").      *)
(* The key of a field is a float64, of which only the order matters: one of *)
(* the integers from -Infinity to Infinity, or NaN.                         *)
(***************************************************************************)
EXTENDS Integers, Sequences, FiniteSets, SequencesExt

CONSTANTS
    Paths,      \* the files the vault may hold
    Walk,       \* the order WalkDir visits them in
    Notes,      \* what a file may say
    Key,        \* normalizeKey: the key of each spelling
    Dimensions, \* the declared dimensions
    Orderable,  \* the declared orderable fields
    NaN,        \* the key that is no number
    Infinity,   \* the greatest key
    Requests    \* the arguments kb_enumerate may be called with

Spellings == DOMAIN Key

ASSUME WalkAssumption ==
    /\ Paths \subseteq Nat
    /\ Walk \in Seq(Paths) /\ IsInjective(Walk) /\ ToSet(Walk) = Paths

ASSUME NumbersAssumption == Infinity \in Nat /\ NaN \notin Int

\* A key that is a number and finite: one that can be written as a literal of a query.
Literal(key) == key \notin {NaN, Infinity, -Infinity}

ASSUME NotesAssumption ==
    \A n \in Notes :
        /\ n.title \in Spellings /\ n.aliases \in Seq(Spellings)
        /\ n.dims \in [Dimensions -> Seq(Spellings)]
        /\ \A f \in Orderable :
            /\ n.fields[f].kind \in {"none", "unreadable", "number", "date"}
            /\ n.fields[f].key \in (-Infinity)..Infinity \cup {NaN}
            /\ n.fields[f].kind # "number" => Literal(n.fields[f].key)

ASSUME RequestsAssumption ==
    LET Arguments == [dimension : STRING, value : Spellings]
    IN  \A r \in Requests : /\ r.primary \in Arguments /\ r.and \in Seq(Arguments)
                            /\ r.limit \in Int

VARIABLES
    vault,  \* the notes the index was built of, by path
    memory, \* the index of the memory backend
    graph,  \* the subgraph of the ladybug backend
    call,   \* the call of kb_enumerate under way
    stood   \* history: the vaults whose index stood since the call began

vars == <<vault, memory, graph, call, stood>>

Vaults == UNION {[held -> Notes] : held \in SUBSET Paths}

\* The members of s that are in S, in their order: what a loop over s has collected after
\* each of them.
Collected(s, S) ==
    LET kept[i \in 0..Len(s)] ==
            IF i = 0 THEN <<>>
            ELSE IF s[i] \in S THEN Append(kept[i-1], s[i]) ELSE kept[i-1]
    IN  kept

Among(s, S) == Collected(s, S)[Len(s)]

-----------------------------------------------------------------------------
(* Reading the vault *)

\* The files of a vault, in the order of the walk.
Held(v) == Among(Walk, DOMAIN v)

\* ParseOrderedValue: a number may be anything that a float64 may be, since only a quoted
\* one is refused for being infinite or none (.inf and .nan are numbers to YAML).
Readable(note, f) == note.fields[f].kind \in {"number", "date"}

\* orderedKinds: the first readable value of a field fixes the kind the field is read as.
FixedKind(v, f) ==
    LET Has(p) == p \in DOMAIN v /\ Readable(v[p], f)
        readers == SelectSeq(Walk, Has)
    IN  IF readers = <<>> THEN "none" ELSE v[readers[1]].fields[f].kind

\* Variant with a bug: a value is read whatever its kind.
Usable_AnyKind(v, p, f) == Readable(v[p], f)
\* frontOrdered: a value that is unreadable or of another kind is skipped.
Usable(v, p, f) == Readable(v[p], f) /\ v[p].fields[f].kind = FixedKind(v, f)

\* VaultDocs: a document for each note, in the order of the walk.
Doc(v, p) ==
    [path |-> p, title |-> v[p].title, aliases |-> v[p].aliases, dims |-> v[p].dims,
     ordered |-> {[field |-> f, key |-> v[p].fields[f].key] :
                    f \in {g \in Orderable : Usable(v, p, g)}}]

VaultDocs(v) == [i \in DOMAIN Held(v) |-> Doc(v, Held(v)[i])]

\* The keys that lead to a titled note, those of its aliases.
AliasKeys(d) == IF Key[d.title] = "" THEN {} ELSE {Key[a] : a \in ToSet(d.aliases)} \ {""}

\* The keys a document is indexed under; one that normalizes to nothing is none.
ValueKeys(d, dim) == {Key[s] : s \in ToSet(d.dims[dim])} \ {""}

\* The first spelling of a key in a dimension, the one that is displayed.
Display(docs, dim, k) ==
    LET all == FlattenSeq([i \in DOMAIN docs |-> docs[i].dims[dim]])
    IN  SelectSeq(all, LAMBDA s : Key[s] = k)[1]

Listed(docs, dim) == UNION {ValueKeys(d, dim) : d \in ToSet(docs)}

-----------------------------------------------------------------------------
(* The memory backend *)

PathsOf(entries) == [i \in DOMAIN entries |-> entries[i].path]

\* buildStructured, after each document: a later alias overwrites an earlier one.
Registered(docs) ==
    LET map[i \in 0..Len(docs)] ==
            [k \in {Key[s] : s \in Spellings} |->
                IF i = 0 THEN ""
                ELSE IF k \in AliasKeys(docs[i]) THEN Key[docs[i].title] ELSE map[i-1][k]]
    IN  map

AliasMap(docs) == Registered(docs)[Len(docs)]

DimIndex(docs) ==
    [dim \in Dimensions |-> [k \in Listed(docs, dim) |->
        PathsOf(Among(docs, {d \in ToSet(docs) : k \in ValueKeys(d, dim)}))]]

DispIndex(docs) ==
    [dim \in Dimensions |-> [k \in Listed(docs, dim) |-> Display(docs, dim, k)]]

\* The values of a field, by document.
Entries(docs, f) ==
    LET Of(d) == {[path |-> d.path, key |-> o.key] : o \in {e \in d.ordered : e.field = f}}
    IN  UNION {Of(d) : d \in ToSet(docs)}

\* The comparisons of two float64s: NaN is neither equal to, nor below, anything.
Same(a, b) == a = b /\ a # NaN
Below(a, b) == a # NaN /\ b # NaN /\ a < b

\* buildOrdered: ascending by key, then by path.
Ascends(a, b) == Below(a.key, b.key) \/ (Same(a.key, b.key) /\ a.path < b.path)

\* What sort.Slice may make of the entries: an order, when they have one.  One NaN among
\* the keys is enough for the comparison to be none, and any permutation may come out.
Sorts(entries) ==
    {s \in [1..Cardinality(entries) -> entries] :
        /\ ToSet(s) = entries
        /\ (\A e \in entries : e.key # NaN) =>
               \A i, j \in DOMAIN s : i < j => Ascends(s[i], s[j])}

OrdIndexes(docs) ==
    {ord \in [Orderable -> UNION {Sorts(Entries(docs, f)) : f \in Orderable}] :
        \A f \in Orderable : ord[f] \in Sorts(Entries(docs, f))}

\* Memory.Index, which replaces the index, with what the sorting came to.
MemoryIndex(docs, ord) ==
    [alias |-> AliasMap(docs), dim |-> DimIndex(docs), disp |-> DispIndex(docs), ord |-> ord]

\* Memory.Enumerate: the value is resolved as an alias, then looked up.
EnumerateMemory(f) ==
    LET given == Key[f.value]
        k == IF memory.alias[given] # "" THEN memory.alias[given] ELSE given
        byKey == memory.dim[f.dimension]
    IN  IF k \in DOMAIN byKey THEN byKey[k] ELSE <<>>

\* Memory.Dimensions.
DimensionsMemory(dim) == {memory.disp[dim][k] : k \in DOMAIN memory.disp[dim]}

\* Variant with a bug: the whole index is reversed.
Descend_Reversed(entries) == Reverse(entries)
\* Where the group of equal keys begins that ends at i.
GroupStart(entries, i) ==
    CHOOSE j \in 1..i : /\ \A k \in j..(i-1) : Same(entries[k].key, entries[i].key)
                        /\ j > 1 => ~Same(entries[j-1].key, entries[i].key)

\* The first i entries, their groups from the last to the first, each in its own order.
Descended(entries) ==
    LET down[i \in 0..Len(entries)] ==
            IF i = 0 THEN <<>>
            ELSE SubSeq(entries, GroupStart(entries, i), i) \o down[GroupStart(entries, i) - 1]
    IN  down

Descend(entries) == Descended(entries)[Len(entries)]

\* The first limit of a sequence; zero is no limit.
Capped(s, limit) == IF limit > 0 /\ Len(s) > limit THEN SubSeq(s, 1, limit) ELSE s

\* Memory.Ordered.
OrderedMemory(f, dir, limit) ==
    LET entries == memory.ord[f]
    IN  Capped(PathsOf(IF dir = "desc" THEN Descend(entries) ELSE entries), limit)

-----------------------------------------------------------------------------
(* The ladybug backend *)

EmptyGraph == [docs |-> {}, values |-> {}, hasValue |-> {}, aliases |-> {}, ordinals |-> {}]

\* MERGE ... SET, of rows with different ids: a row replaces the node with its id.
Merge(nodes, rows, id) == {n \in nodes : \A r \in rows : \E f \in id : n[f] # r[f]} \cup rows

\* The rows of the aliases, which are written document after document: the last with a key
\* is what its node is left with.
AliasRows(docs) ==
    UNION {{[nk |-> k, canon |-> Key[docs[i].title]] :
               k \in {a \in AliasKeys(docs[i]) :
                         \A j \in DOMAIN docs : i < j => a \notin AliasKeys(docs[j])}} :
           i \in DOMAIN docs}

\* Variant with a bug: what an earlier vault left is kept.
Deleted_Kept == graph
\* The nodes and edges are deleted before the new ones are written.
Deleted == EmptyGraph

\* The ordinals are written as literals, key:NaN and key:+Inf are none: the statement fails
\* to parse, and with it the index, whose transaction is rolled back.
Writable(docs) == \A d \in ToSet(docs) : \A o \in d.ordered : Literal(o.key)

\* rebuildStructured.  A value is written once, with the first spelling.
Rebuilt(docs) ==
    LET all == ToSet(docs)
        Values(d) == UNION {{<<d.path, dim, k>> : k \in ValueKeys(d, dim)} : dim \in Dimensions}
        pairs == UNION {Values(d) : d \in all}
    IN  [docs     |-> Deleted.docs \cup {d.path : d \in all},
         values   |-> Merge(Deleted.values,
                        {[dim |-> e[2], nk |-> e[3], disp |-> Display(docs, e[2], e[3])] :
                            e \in pairs}, {"dim", "nk"}),
         hasValue |-> Deleted.hasValue \cup pairs,
         aliases  |-> Merge(Deleted.aliases, AliasRows(docs), {"nk"}),
         ordinals |-> Merge(Deleted.ordinals,
                        UNION {{[path |-> d.path, field |-> o.field, key |-> o.key] :
                                   o \in d.ordered} : d \in all}, {"path", "field"})]

\* Ladybug.Enumerate with resolveAlias, a set: the query asks for no order.
EnumerateGraph(f) ==
    LET given == Key[f.value]
        canons == {a.canon : a \in {b \in graph.aliases : b.nk = given}}
        k == IF canons # {} THEN CHOOSE c \in canons : TRUE ELSE given
    IN  {e[1] : e \in {h \in graph.hasValue : h[2] = f.dimension /\ h[3] = k}}

\* Ladybug.Dimensions.
DimensionsGraph(dim) == {v.disp : v \in {w \in graph.values : w.dim = dim}}

\* ORDER BY the key, ascending or not, and then by the path.
Before(dir, a, b) ==
    \/ dir = "asc" /\ a.key < b.key
    \/ dir = "desc" /\ b.key < a.key
    \/ a.key = b.key /\ a.path < b.path

OrderedBy(rows, dir) ==
    CHOOSE s \in [1..Cardinality(rows) -> rows] :
        ToSet(s) = rows /\ \A i, j \in DOMAIN s : i < j => Before(dir, s[i], s[j])

\* Ladybug.Ordered.
OrderedGraph(f, dir, limit) ==
    LET rows == {[path |-> o.path, key |-> o.key] : o \in {n \in graph.ordinals : n.field = f}}
    IN  Capped(PathsOf(OrderedBy(rows, dir)), limit)

-----------------------------------------------------------------------------
(* kb_enumerate *)

\* scalarArg: an argument that is missing is "".
Whole(f) == f.dimension # "" /\ f.value # ""
NoFilter(f) == f.dimension = "" /\ f.value = ""

\* Variant with a bug: the sort field is not looked up among the declared ones.
OrderAccepted_AnyField(r) == r.direction \in {"", "asc", "desc"} /\ r.limit >= 0
\* parseOrder: without a sort field, direction and limit are not looked at.  A limit that
\* is not a positive whole number is -1, one that is missing 0 (intArg).
OrderAccepted(r) ==
    r.sort # "" => r.sort \in Orderable /\ r.direction \in {"", "asc", "desc"} /\ r.limit >= 0

Order(r) ==
    IF r.sort = "" THEN [field |-> "", dir |-> "desc", limit |-> 0]
    ELSE [field |-> r.sort, limit |-> r.limit,
          dir |-> IF r.direction = "asc" THEN "asc" ELSE "desc"]

\* parsePredicates: a call that sorts may have no filter, and its "and" is not looked at.
FiltersAccepted(r) ==
    IF NoFilter(r.primary) THEN r.sort # ""
    ELSE Whole(r.primary) /\ \A f \in ToSet(r.and) : Whole(f)

Predicates(r) == IF Whole(r.primary) THEN <<r.primary>> \o r.and ELSE <<>>

NoCall == [at |-> "idle"]
Answer(r, outcome, refs) == [at |-> "answered", request |-> r, outcome |-> outcome, refs |-> refs]

\* The arguments are parsed, before the store is asked.
Call(r) ==
    /\ call.at = "idle"
    /\ LET preds == Predicates(r)
           accepted == OrderAccepted(r) /\ FiltersAccepted(r)
                       /\ \A f \in ToSet(preds) : f.dimension \in Dimensions
       IN  call' = IF ~accepted THEN Answer(r, "refused", <<>>)
                   ELSE [at |-> IF preds = <<>> THEN "order" ELSE "filter", request |-> r,
                         preds |-> preds, refs |-> <<>>]
    /\ stood' = {vault}
    /\ UNCHANGED <<vault, memory, graph>>

\* Variant with a bug: the answer is the last filter's.
Joined_Last(c, found) == found
\* The documents of the earlier filters that are among those of this one.
Joined(c, found) ==
    IF c.preds = Predicates(c.request) THEN found
    ELSE Among(c.refs, ToSet(found))

\* intersect, one filter at a time: a filter that matches no document ends the call, and
\* only documents that are left are sorted.
Filter ==
    /\ call.at = "filter"
    /\ LET found == EnumerateMemory(Head(call.preds))
           joined == Joined(call, found)
           rest == Tail(call.preds)
           sorts == call.request.sort # "" /\ joined # <<>>
       IN  \/ /\ found = <<>>
              /\ call' = Answer(call.request, "unmatched", <<>>)
           \/ /\ found # <<>> /\ (rest # <<>> \/ sorts)
              /\ call' = [call EXCEPT !.at = IF rest # <<>> THEN "filter" ELSE "order",
                                     !.preds = rest, !.refs = joined]
           \/ /\ found # <<>> /\ rest = <<>> /\ ~sorts
              /\ call' = Answer(call.request, "listed", joined)
    /\ UNCHANGED <<vault, memory, graph, stood>>

\* Variant with a bug: the store caps before the filters are applied.
Ranked_CappedFirst(o, keep) ==
    Among(OrderedMemory(o.field, o.dir, o.limit), keep)
\* ordered: the documents kept, in the order of the field, the first limit of them.
Ranked(o, keep) == Capped(Among(OrderedMemory(o.field, o.dir, 0), keep), o.limit)

\* ordered, once the filters are joined; without a filter the store applies the limit.
Sort ==
    /\ call.at = "order"
    /\ LET o == Order(call.request)
       IN  call' = Answer(call.request, "listed",
                     IF Predicates(call.request) = <<>> THEN OrderedMemory(o.field, o.dir, o.limit)
                     ELSE Ranked(o, ToSet(call.refs)))
    /\ UNCHANGED <<vault, memory, graph, stood>>

\* The answer is taken.
Return ==
    /\ call.at = "answered"
    /\ call' = NoCall /\ stood' = {}
    /\ UNCHANGED <<vault, memory, graph>>

\* The vault is indexed anew, each method of the store seeing one index or the other.  An
\* answer is only kept here to be looked at: nothing happens while it stands.
Reindex(v) ==
    /\ call.at # "answered"
    /\ vault' = v
    /\ \E ord \in OrdIndexes(VaultDocs(v)) : memory' = MemoryIndex(VaultDocs(v), ord)
    /\ graph' = IF Writable(VaultDocs(v)) THEN Rebuilt(VaultDocs(v)) ELSE graph
    /\ stood' = IF call.at = "idle" THEN {} ELSE stood \cup {v}
    /\ UNCHANGED call

Init ==
    /\ vault = <<>>
    /\ \E ord \in OrdIndexes(<<>>) : memory = MemoryIndex(<<>>, ord)
    /\ graph = EmptyGraph
    /\ call = NoCall /\ stood = {}

CONSTANT MaxReindexes \* bound: the reindexes during one call

Next ==
    \/ \E r \in Requests : Call(r)
    \/ Filter \/ Sort \/ Return
    \/ \E v \in Vaults : (call.at = "idle" \/ Cardinality(stood) <= MaxReindexes) /\ Reindex(v)

Spec == Init /\ [][Next]_vars

-----------------------------------------------------------------------------
(* What an index should answer, said of the notes alone *)

\* The key a value stands for: that of the title of the note that declares it as an
\* alias, the last one in the walk, or its own.
Canon(v, value) ==
    LET Declares(p) == /\ Key[v[p].title] # "" /\ Key[value] # ""
                       /\ Key[value] \in {Key[a] : a \in ToSet(v[p].aliases)}
        namers == Among(Held(v), {p \in DOMAIN v : Declares(p)})
    IN  IF namers = <<>> THEN Key[value] ELSE Key[v[Last(namers)].title]

Matches(v, p, f) ==
    /\ p \in DOMAIN v
    /\ \E s \in ToSet(v[p].dims[f.dimension]) : Key[s] # "" /\ Key[s] = Canon(v, f.value)

Carries(v, p, field) == p \in DOMAIN v /\ (field # "" => Usable(v, p, field))

Rank(v, p, field) == v[p].fields[field].key

\* p comes before q in an answer, by a field of one vault.
Precedes(v, p, q, o) ==
    /\ Carries(v, p, o.field) /\ Carries(v, q, o.field)
    /\ \/ IF o.dir = "asc" THEN Below(Rank(v, p, o.field), Rank(v, q, o.field))
          ELSE Below(Rank(v, q, o.field), Rank(v, p, o.field))
       \/ Same(Rank(v, p, o.field), Rank(v, q, o.field)) /\ p < q

\* The values of a field have an order.
Comparable(v, field) == \A p \in DOMAIN v : Usable(v, p, field) => Rank(v, p, field) # NaN

Listing == call.at = "answered" /\ call.outcome = "listed"

Filters == [dimension : Dimensions, value : Spellings \ {""}]

-----------------------------------------------------------------------------
(* Properties *)

\* The types of the variables; a call that asks the store has a filter or an order left.
TypeOK ==
    /\ vault \in Vaults
    /\ call.at \in {"idle", "filter", "order", "answered"}
    /\ call.at \in {"filter", "order"} =>
        /\ call.request \in Requests
        /\ call.preds \in Seq(Filters) /\ (call.at = "filter") = (call.preds # <<>>)
        /\ call.at = "order" => call.request.sort \in Orderable
    /\ call.at # "idle" => ToSet(call.refs) \subseteq Paths /\ IsInjective(call.refs)
    /\ stood \in SUBSET Vaults /\ (call.at = "idle") = (stood = {})

\* The memory backend answers a single lookup as the notes say: with each document that
\* matches, once; by a field, with each that carries it, once, and in the order of the
\* field unless one of its values has no place in an order.
MemoryAnswers ==
    /\ \A f \in Filters :
        LET found == EnumerateMemory(f)
        IN  /\ found \in Seq(Paths) /\ IsInjective(found)
            /\ \A p \in Paths : p \in ToSet(found) <=> Matches(vault, p, f)
    /\ \A f \in Orderable \ {""}, dir \in {"asc", "desc"} :
        LET sorted == OrderedMemory(f, dir, 0)
            o == [field |-> f, dir |-> dir]
        IN  /\ sorted \in Seq(Paths) /\ IsInjective(sorted)
            /\ \A p \in Paths : p \in ToSet(sorted) <=> Carries(vault, p, f)
            /\ Comparable(vault, f) =>
                \A i, j \in DOMAIN sorted : i < j => Precedes(vault, sorted[i], sorted[j], o)

\* Both backends answer every lookup over the same vault alike and as the notes say, ties
\* and limits included, whatever was indexed before (comments of Memory.Ordered and
\* Ladybug.Ordered).  Excepted are the vaults with an infinite value or one that is no
\* number, which the ladybug backend fails to index.
BackendsAgree ==
    /\ MemoryAnswers
    /\ Writable(VaultDocs(vault)) =>
        /\ \A f \in Filters : ToSet(EnumerateMemory(f)) = EnumerateGraph(f)
        /\ \A d \in Dimensions : DimensionsMemory(d) = DimensionsGraph(d)
        /\ \A f \in Orderable \ {""}, dir \in {"asc", "desc"}, limit \in 0..1 :
            OrderedMemory(f, dir, limit) = OrderedGraph(f, dir, limit)

\* A document that is listed matched every filter, and carried the field it is sorted by,
\* when the store was asked: no answer is made up, even of two indexes (intersect, ordered).
ListedMatches ==
    Listing => \A p \in ToSet(call.refs) :
        /\ \A f \in ToSet(Predicates(call.request)) : \E v \in stood : Matches(v, p, f)
        /\ \E v \in stood : Carries(v, p, Order(call.request).field)

\* A document that matched throughout the call and is not listed is cut by the limit:
\* the answer is full, and of documents that come before it, wherever there is an order to
\* come before it in.  So "No document" is never said of a filter that some document
\* matched throughout (comments of ordered, intersect).
NothingLeftOut ==
    call.at = "answered" /\ call.outcome # "refused" =>
        LET o == Order(call.request)
        IN  \A p \in Paths \ ToSet(call.refs) :
                (\A v \in stood : /\ Carries(v, p, o.field)
                                  /\ \A f \in ToSet(Predicates(call.request)) : Matches(v, p, f))
                => /\ o.limit > 0 /\ Len(call.refs) = o.limit
                   /\ \A q \in ToSet(call.refs) :
                       \E v \in stood : Comparable(v, o.field) => Precedes(v, q, p, o)

\* A sorted answer is in the order of one index that stood during the call, all of whose
\* values are of one kind: numbers are never compared with dates (orderedKinds).  An index
\* with a value that is no number has no order, and its answer is in none.
InOneOrder ==
    Listing /\ Order(call.request).field # "" =>
        LET o == Order(call.request)
        IN  \E v \in stood :
                /\ \A p \in ToSet(call.refs) : Carries(v, p, o.field)
                /\ Comparable(v, o.field) =>
                    \A i, j \in DOMAIN call.refs :
                        i < j => Precedes(v, call.refs[i], call.refs[j], o)
                /\ \A p, q \in ToSet(call.refs) :
                    v[p].fields[o.field].kind = v[q].fields[o.field].kind

\* Comment of Memory.Dimensions: a value that is listed is enumerable, kb_enumerate finds
\* a document with it.
ListedIsEnumerable ==
    \A d \in Dimensions : \A s \in DimensionsMemory(d) :
        EnumerateMemory([dimension |-> d, value |-> s]) # <<>>
=============================================================================
