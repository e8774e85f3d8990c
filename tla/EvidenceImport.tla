--------------------------- MODULE EvidenceImport ---------------------------
(***************************************************************************)
(* tracemantle import-evidence: product_commands._run (lines 71-94) and    *)
(* the --output handling of main (lines 147-173).  An export is parsed and *)
(* every record compared with the bundle before anything is stored; then   *)
(* the export and its records go to the store one by one; only then is the *)
(* output file looked at.  The store is what storage.put_bytes promises,   *)
(* the abstract module ImmutableStore.                                     *)
(*                                                                         *)
(* An export is a model value, Rows[e] what an adapter makes of it: a      *)
(* record per bound row, or Garbled for an export that is refused.  A      *)
(* stored record carries the digest of its export (artifact_sha256).       *)
(***************************************************************************)
EXTENDS Naturals, Sequences

CONSTANTS Importers,  \* processes that run the command
          Versions,   \* contents the bundle can have
          Exports,    \* evaluator exports
          Rows,       \* export -> the rows an adapter finds in it, or Garbled
          Garbled,    \* an export the adapter refuses
          Anything,   \* a row that declares no inputs
          Original,   \* stands for the export itself among its records
          Requests,   \* the command lines in use
          NoRequest,  \* a process that has not been started
          NoFile,     \* no output file
          Torn,       \* an output file that was created and not filled
          Foreign     \* an output file of somebody else

(* What a record claims: its bundle digest and the resource digests of some
   version. *)
Row     == [bundle : Versions, inputs : Versions \cup {Anything}]
Request == [export : Exports, asks : BOOLEAN,
            inside : SUBSET {"store", "adapter", "output"}]

ASSUME ImportAssumption ==
    /\ Rows \in [Exports -> Seq(Row) \cup {Garbled}]
    /\ Garbled \notin Seq(Row)
    /\ Anything \notin Versions /\ Original \notin Row
    /\ Requests \subseteq Request
    /\ {NoFile, Torn, Foreign} \cap Exports = {}
    /\ NoFile # Torn /\ NoFile # Foreign /\ Torn # Foreign

VARIABLES bundle,     \* the bundle directory as it is now
          objects, acked,   \* the store, see ImmutableStore
          lost,       \* history: objects a power failure took away
          file,       \* the output file; a report is named by its export
          inBundle,   \* history: paths inside the bundle the command used
          pc, request, seen, next,  \* per process
          reported    \* history: exports whose import ended with status 4

store == <<objects, acked, lost>>
local == <<request, seen, next>>
vars  == <<bundle, store, file, inBundle, pc, local, reported>>

Object == [from : Exports, row : Row \cup {Original}]
Store  == INSTANCE ImmutableStore WITH Raw <- Object

Source(e)   == [from |-> e, row |-> Original]

SourceLast(e, n) ==     \* slip: the records are put before their export
    IF n = Len(Rows[e]) THEN Source(e) ELSE [from |-> e, row |-> Rows[e][n + 1]]

(* The objects of an export in the order they are put. *)
Item(e, n)  == IF n = 0 THEN Source(e) ELSE [from |-> e, row |-> Rows[e][n]]
Items(e)    == {Item(e, n) : n \in 0 .. Len(Rows[e])}

Matches(row, v) == row.bundle = v /\ row.inputs \in {v, Anything}
Fits(e, v)      == /\ Rows[e] # Garbled
                   /\ \A n \in 1 .. Len(Rows[e]) : Matches(Rows[e][n], v)

TypeOK == /\ bundle \in Versions
          /\ objects \subseteq Object /\ acked \subseteq objects /\ lost \subseteq Object
          /\ file \in Exports \cup {NoFile, Torn, Foreign}
          /\ inBundle \subseteq {"store", "adapter", "output"}
          /\ pc \in [Importers -> {"idle", "hash", "read", "put", "report",
                                   "compare", "create", "fill"}]
          /\ request \in [Importers -> Requests \cup {NoRequest}]
          /\ seen \in [Importers -> Versions \cup {Anything}]
          /\ next \in [Importers -> Nat]
          /\ \A i \in Importers : pc[i] = "put" => next[i] <= Len(Rows[request[i].export])
          /\ reported \subseteq Exports

Init == /\ bundle \in Versions
        /\ objects = {} /\ acked = {} /\ lost = {}
        /\ file \in {NoFile, Foreign}
        /\ inBundle = {}
        /\ pc = [i \in Importers |-> "idle"]
        /\ request = [i \in Importers |-> NoRequest]
        /\ seen = [i \in Importers |-> Anything]
        /\ next = [i \in Importers |-> 0]
        /\ reported = {}
-----------------------------------------------------------------------------
Export(i)  == request[i].export
Uses(i, p) == inBundle' = IF p \in request[i].inside THEN inBundle \cup {p} ELSE inBundle
Goto(i, l) == pc' = [pc EXCEPT ![i] = l] /\ UNCHANGED <<request, reported>>

(* The process ends and what it knew is gone; status 4 or status 2. *)
Exit(i)    == /\ pc' = [pc EXCEPT ![i] = "idle"]
              /\ request' = [request EXCEPT ![i] = NoRequest]
              /\ seen' = [seen EXCEPT ![i] = Anything]
              /\ next' = [next EXCEPT ![i] = 0]
Succeed(i) == Exit(i) /\ reported' = reported \cup {Export(i)}
Refuse(i)  == Exit(i) /\ UNCHANGED reported

(* Slips in the command; no specification uses them. *)
AcceptFirst(i) ==       \* only the first record is compared with the bundle
    /\ pc[i] = "read" /\ Rows[Export(i)] # Garbled
    /\ \A n \in 1 .. Len(Rows[Export(i)]) : n = 1 => Matches(Rows[Export(i)][n], seen[i])
    /\ Uses(i, "adapter") /\ Goto(i, "put")
    /\ UNCHANGED <<bundle, store, file, seen, next>>

AcknowledgeEarly(i) ==  \* the loop stops one record short
    /\ pc[i] = "put" /\ Store!Acknowledge(Item(Export(i), next[i]))
    /\ next' = [next EXCEPT ![i] = @ + 1]
    /\ Goto(i, IF next[i] + 1 >= Len(Rows[Export(i)]) THEN "report" ELSE "put")
    /\ UNCHANGED <<bundle, lost, file, inBundle, seen>>

AcknowledgeOn(i) ==     \* the loop does not end after the last record
    /\ pc[i] = "put" /\ Store!Acknowledge(Item(Export(i), next[i]))
    /\ next' = [next EXCEPT ![i] = @ + 1]
    /\ Goto(i, IF next[i] > Len(Rows[Export(i)]) THEN "report" ELSE "put")
    /\ UNCHANGED <<bundle, lost, file, inBundle, seen>>

CreateOver(i) ==        \* mode 'w': a file that has appeared meanwhile is emptied
    /\ pc[i] = "create"
    /\ file' = Torn /\ Uses(i, "output") /\ Goto(i, "fill")
    /\ UNCHANGED <<bundle, store, seen, next>>
-----------------------------------------------------------------------------
(* A command line.  A store inside the bundle is refused at once (line 72). *)
Start(i, r) ==
    /\ pc[i] = "idle" /\ "store" \notin r.inside
    /\ request' = [request EXCEPT ![i] = r]
    /\ pc' = [pc EXCEPT ![i] = "hash"]
    /\ UNCHANGED <<bundle, store, file, inBundle, seen, next, reported>>

(* create_manifest; then an adapter inside the bundle is refused. *)
Hash(i) ==
    /\ pc[i] = "hash"
    /\ \/ "adapter" \notin request[i].inside /\ Goto(i, "read")
          /\ seen' = [seen EXCEPT ![i] = bundle] /\ UNCHANGED next
       \/ "adapter" \in request[i].inside /\ Refuse(i)
    /\ UNCHANGED <<bundle, store, file, inBundle>>

(* The export is read once and adapted, and every record is compared with
   the manifest; one that does not fit refuses the whole export. *)
Accept(i) ==
    /\ pc[i] = "read" /\ Fits(Export(i), seen[i])
    /\ Uses(i, "adapter") /\ Goto(i, "put")
    /\ UNCHANGED <<bundle, store, file, seen, next>>

Reject(i) ==
    /\ pc[i] = "read" /\ ~Fits(Export(i), seen[i])
    /\ Uses(i, "adapter") /\ Refuse(i)
    /\ UNCHANGED <<bundle, store, file>>

(* put_bytes of the export, then of each record: the object appears, unless
   it is there already, and then the call returns. *)
Publish(i) ==
    /\ pc[i] = "put" /\ Store!Publish(Item(Export(i), next[i]))
    /\ Uses(i, "store")
    /\ UNCHANGED <<bundle, lost, file, pc, local, reported>>

Acknowledge(i) ==
    /\ pc[i] = "put" /\ Store!Acknowledge(Item(Export(i), next[i]))
    /\ next' = [next EXCEPT ![i] = @ + 1]
    /\ Goto(i, IF next[i] = Len(Rows[Export(i)]) THEN "report" ELSE "put")
    /\ UNCHANGED <<bundle, lost, file, inBundle, seen>>

(* main: the report is printed, or goes to a file outside the bundle. *)
PrintReport(i) ==
    /\ pc[i] = "report" /\ ~request[i].asks /\ Succeed(i)
    /\ UNCHANGED <<bundle, store, file, inBundle>>

RefuseOutput(i) ==
    /\ pc[i] = "report" /\ request[i].asks /\ "output" \in request[i].inside
    /\ Refuse(i)
    /\ UNCHANGED <<bundle, store, file, inBundle>>

LookForOutput(i) ==
    /\ pc[i] = "report" /\ request[i].asks /\ "output" \notin request[i].inside
    /\ Goto(i, IF file = NoFile THEN "create" ELSE "compare")
    /\ UNCHANGED <<bundle, store, file, inBundle, seen, next>>

(* An output file that was there must hold this very report. *)
CompareOutput(i) ==
    /\ pc[i] = "compare"
    /\ IF file = Export(i) THEN Succeed(i) ELSE Refuse(i)
    /\ UNCHANGED <<bundle, store, file, inBundle>>

(* open('x') creates the file, or fails when it has appeared meanwhile. *)
CreateOutput(i) ==
    /\ pc[i] = "create"
    /\ \/ /\ file = NoFile /\ file' = Torn
          /\ Uses(i, "output") /\ Goto(i, "fill") /\ UNCHANGED <<seen, next>>
       \/ file # NoFile /\ Refuse(i) /\ UNCHANGED <<file, inBundle>>
    /\ UNCHANGED <<bundle, store>>

FillOutput(i) ==
    /\ pc[i] = "fill"
    /\ file' = Export(i) /\ Succeed(i)
    /\ UNCHANGED <<bundle, store, inBundle>>

(* An unreadable bundle or export or a full disk reaches the handler of main;
   a process that is killed reaches none.  The files are as they are. *)
Stops(i) ==
    /\ pc[i] # "idle" /\ Refuse(i)
    /\ UNCHANGED <<bundle, store, file, inBundle>>
-----------------------------------------------------------------------------
Edit(v) ==
    /\ v # bundle /\ bundle' = v
    /\ UNCHANGED <<store, file, inBundle, pc, local, reported>>

(* Power fails: names the directories had not written back are gone, and so
   may be the output file, which nobody fsyncs. *)
Outage ==
    /\ Store!Outage
    /\ lost' = lost \cup (objects \ objects')
    /\ file' \in IF file = Foreign THEN {Foreign}
                 ELSE {file, NoFile} \cup (IF file = NoFile THEN {} ELSE {Torn})
    /\ pc' = [i \in Importers |-> "idle"]
    /\ request' = [i \in Importers |-> NoRequest]
    /\ seen' = [i \in Importers |-> Anything]
    /\ next' = [i \in Importers |-> 0]
    /\ UNCHANGED <<bundle, inBundle, reported>>

Proceed(i) == \/ Hash(i) \/ Accept(i) \/ Reject(i) \/ Publish(i) \/ Acknowledge(i)
              \/ PrintReport(i) \/ RefuseOutput(i) \/ LookForOutput(i)
              \/ CompareOutput(i) \/ CreateOutput(i) \/ FillOutput(i)

Next == \/ \E i \in Importers : (\E r \in Requests : Start(i, r)) \/ Proceed(i) \/ Stops(i)
        \/ \E v \in Versions : Edit(v)
        \/ Outage

Spec == Init /\ [][Next]_vars
-----------------------------------------------------------------------------
(* An export that is malformed, or one of whose records is about something *)
(* other than one version of the bundle, leaves nothing in the store, not  *)
(* even a part of it (product_commands.py:87-92).                          *)
WholeExportsOnly ==
    \A o \in objects : \E v \in Versions : Fits(o.from, v)

(* Whenever a record can be read, the export it was made from can be read  *)
(* too, also after a crash in the middle of an import; only a power        *)
(* failure may take the export away.                                       *)
RecordsHaveSources == \A o \in objects : Source(o.from) \in objects \cup lost

(* A report says that the export and all its records are in the store.     *)
(* Whoever reads it, in the output file or as exit status 4, finds them.   *)
ReportsAreTrue ==
    /\ file \in Exports => Items(file) \subseteq objects \cup lost
    /\ \A e \in reported : Items(e) \subseteq objects \cup lost

(* Neither the store, nor the output, nor an adapter that is run, is ever  *)
(* inside the bundle, though the three are refused at different moments.   *)
BundleLeftAlone == inBundle = {}

(* While the machine is up, an output file is never replaced, and only the *)
(* process that created it writes to it.                                   *)
OutputKept == [][file = NoFile \/ file' = file \/ Outage
                 \/ \E i \in Importers : pc[i] = "fill" /\ file = Torn /\ file' = Export(i)]_vars
=============================================================================
