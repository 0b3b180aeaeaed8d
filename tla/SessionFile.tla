----------------------------- MODULE SessionFile -----------------------------
(***************************************************************************)
(* The session of the coding agent and its file: SessionManager of         *)
(* packages/coding-agent/src/core/session-manager.ts with the compaction   *)
(* cut of compaction/compaction.ts, the tree navigation of AgentSession    *)
(* and the fork of AgentSessionRuntime.  An entry is the child of the leaf *)
(* it was appended behind; the file gets its first line with the first     *)
(* answer of the model, and every entry after that at once.  A write may   *)
(* stop after any byte: appendFileSync throws, or the process dies.        *)
(***************************************************************************)
EXTENDS Integers, FiniteSets, Sequences, SequencesExt, FiniteSetsExt

CONSTANTS
  MaxEntries,   \* entries ever created, in all files, and events        (bound)
  MaxEvents     \* label changes, navigations, forks, files opened again
                \* and writes cut short, together                        (bound)

ASSUME SessionFileAssumption == {MaxEntries, MaxEvents} \subseteq Nat

VARIABLES
  session,   \* the SessionManager in use
  disk,      \* its file
  counts     \* ghost: what happened so far

sessionFileVars == <<session, disk, counts>>

NoId == 0

(* Messages of the context; a bash execution and a custom message are      *)
(* "user", every metadata entry but a label is "info".                     *)
Visible    == {"user", "assistant", "toolResult", "summary"}
SessionEntryTypes == Visible \cup {"info", "label", "unlabel", "compaction"}

(* `ref` is the target of a label or firstKeptEntryId, `covers` the        *)
(* messages a compaction was made from, in place of its text.              *)
Entry ==
  [id : 1..MaxEntries, parent : 0..MaxEntries, type : SessionEntryTypes,
   ref : 0..MaxEntries, covers : SUBSET (1..MaxEntries)]

(* How a write ends: complete, before its first byte, within a line, or    *)
(* in front of the newline.                                                *)
Ends == {"done", "none", "torn", "whole"}

-----------------------------------------------------------------------------
(* Reading the entries.                                                    *)

IdsOf(entries) == {e.id : e \in ToSet(entries)}
EntryOf(entries, i) == CHOOSE e \in ToSet(entries) : e.id = i

(* The walk to the root ends at an entry whose parent is not there         *)
(* (getBranch, buildSessionPath).                                          *)
Path(entries, leaf) ==
  LET known(i) == i \in IdsOf(entries)
      walk[n \in 0..Len(entries)] ==
        IF n = 0 THEN IF known(leaf) THEN <<EntryOf(entries, leaf)>> ELSE <<>>
        ELSE LET path == walk[n - 1] IN
             IF path # <<>> /\ known(Head(path).parent)
             THEN <<EntryOf(entries, Head(path).parent)>> \o path ELSE path
  IN walk[Len(entries)]

PositionOf(path, i) ==
  IF i \in IdsOf(path) THEN CHOOSE k \in DOMAIN path : path[k].id = i ELSE 0

LastCompaction(path) ==
  SelectLastInSeq(path, LAMBDA e : e.type = "compaction")

(* The last compaction, what it kept, and everything behind it.            *)
ContextOf(path) ==
  LET last == LastCompaction(path)
      kept == PositionOf(path, path[last].ref)
  IN IF last = 0 THEN path
     ELSE <<path[last]>>
            \o (IF kept \in 1..(last - 1) THEN SubSeq(path, kept, last - 1) ELSE <<>>)
            \o SubSeq(path, last + 1, Len(path))

IsMessage(e) == e.type \in Visible \cup {"compaction"}
MessageIds(path) == [k \in DOMAIN SelectSeq(path, IsMessage) |->
                       SelectSeq(path, IsMessage)[k].id]

(* _buildIndex: a later change of a label replaces an earlier one.         *)
LabelsOf(entries) ==
  {i \in IdsOf(entries) :
     \E k \in DOMAIN entries :
       /\ entries[k].type = "label" /\ entries[k].ref = i
       /\ \A n \in (k + 1)..Len(entries) :
            ~(entries[n].type = "unlabel" /\ entries[n].ref = i)}

HasAssistant(entries) == \E e \in ToSet(entries) : e.type = "assistant"

-----------------------------------------------------------------------------
(* The file.  `header` is "none" in an empty file and "torn" in one whose  *)
(* first line does not parse; `lines` are the lines that parse; the `tail` *)
(* tells how the last line ends.                                           *)

NoSessionFile == [exists |-> FALSE, header |-> "none", lines |-> <<>>, tail |-> "done"]

Rewritten(entries) ==
  [exists |-> TRUE, header |-> "ok", lines |-> entries, tail |-> "done"]

(* A line written behind one without a newline makes one line that does    *)
(* not parse, whatever the first half was; that may be the header.         *)
AppendLine(f, e, end) ==
  LET onItsOwn == f.tail = "done"
      joined   == f.tail = "whole" /\ end # "none"
  IN [f EXCEPT
        !.header = IF joined /\ f.lines = <<>> THEN "torn" ELSE f.header,
        !.lines = IF onItsOwn /\ end \in {"done", "whole"} THEN Append(f.lines, e)
                  ELSE IF joined /\ f.lines # <<>> THEN Front(f.lines)
                  ELSE f.lines,
        !.tail = CASE end = "none" -> f.tail
                   [] end = "done" -> "done"
                   [] end = "torn" -> "torn"
                   [] end = "whole" -> IF onItsOwn THEN "whole" ELSE "torn"]

(* The first write: openSync "wx", then line by line; -1 lines is a header *)
(* that is not complete.                                                   *)
FirstFlush(entries, cut) ==
  IF cut.end = "done" THEN Rewritten(entries)
  ELSE [exists |-> TRUE,
        header |-> IF cut.lines >= 0 \/ cut.end = "whole" THEN "ok" ELSE cut.end,
        lines  |-> SubSeq(entries, 1, cut.lines),
        tail   |-> IF cut.end = "none" THEN "done" ELSE cut.end]

-----------------------------------------------------------------------------
(* One append, as a function of what it finds: [session, disk, counts, ok].*)

Now == [session |-> session, disk |-> disk, counts |-> counts, ok |-> TRUE]

Become(now) ==
  /\ session' = now.session
  /\ disk' = now.disk
  /\ counts' = now.counts

(* How an append of an entry may be written, if it is.                     *)
Whole == [end |-> "done", lines |-> 0]
Writes(type) ==
  \/ session.flushed
  \/ type = "assistant" /\ ~disk.exists

Cuts(type) ==
  {Whole}
  \cup (IF counts.events < MaxEvents /\ Writes(type)
        THEN [end : {"none", "torn", "whole"},
              lines : IF session.flushed THEN {0}
                      ELSE (-1)..Len(session.fileEntries)]
        ELSE {})

(* What a write leaves: the file, and whether it is acknowledged.          *)
Wrote(now, f, ids, cut) ==
  [now EXCEPT
     !.disk = f,
     !.ok = cut.end = "done",
     !.session.flushed = now.session.flushed \/ cut.end = "done",
     !.counts.cuts = IF cut.end = "done" THEN @ ELSE @ + 1,
     !.counts.events = IF cut.end = "done" THEN @ ELSE @ + 1,
     !.counts.acked = IF cut.end = "done" THEN @ \cup ids ELSE @]

\* Mutant: the first answer is written without what came before it.
PersistFromAnswer(now, e, cut) ==
  IF ~now.session.flushed /\ ~HasAssistant(now.session.fileEntries) THEN now
  ELSE IF ~now.session.flushed
       THEN Wrote(now, FirstFlush(<<e>>, cut), {e.id}, cut)
  ELSE Wrote(now, AppendLine(now.disk, e, cut.end), {e.id}, cut)

(* Nothing before the first answer, everything with it, and one line for   *)
(* each entry after it.  A first write that failed has left a file, which  *)
(* makes every later one throw EEXIST.                                     *)
Persist(now, e, cut) ==
  LET entries == now.session.fileEntries IN
  IF now.session.flushed
  THEN Wrote(now, AppendLine(now.disk, e, cut.end), {e.id}, cut)
  ELSE IF ~HasAssistant(entries) THEN now
  ELSE IF now.disk.exists THEN [now EXCEPT !.ok = FALSE]
  ELSE Wrote(now, FirstFlush(entries, cut), IdsOf(entries), cut)

(* _appendEntry: the entry is in memory before it is written.              *)
AppendSessionEntry(now, type, ref, covers, cut) ==
  LET e == [id |-> now.counts.next, parent |-> now.session.leafId, type |-> type,
            ref |-> ref, covers |-> covers]
  IN Persist([now EXCEPT !.session.fileEntries = Append(@, e),
                         !.session.leafId = e.id,
                         !.counts.next = @ + 1],
             e, cut)

(* appendLabelChange: the map changes when the entry is written.           *)
AppendLabelChange(now, target, type, cut) ==
  LET after == AppendSessionEntry(now, type, target, {}, cut) IN
  IF ~after.ok THEN after
  ELSE [after EXCEPT
          !.session.labels = IF type = "label" THEN @ \cup {target} ELSE @ \ {target}]

(* Each event leaves room for one entry less.                              *)
Room(n) == counts.next + n - 1 <= MaxEntries - counts.events

Event(now) == [now EXCEPT !.counts.events = @ + 1]
MoreEvents == counts.events < MaxEvents

-----------------------------------------------------------------------------
(* Opening a file (_setSessionFile).                                       *)

EmptySession ==
  [fileEntries |-> <<>>, leafId |-> NoId, labels |-> {}, flushed |-> FALSE]

SessionOf(entries, flushed) ==
  [fileEntries |-> entries,
   leafId |-> IF entries = <<>> THEN NoId ELSE Last(entries).id,
   labels |-> LabelsOf(entries),
   flushed |-> flushed]

Refused(f) == f.header = "torn"

(* An empty file is given a header.                                        *)
OpenedFile(f) == IF f.exists /\ f.header = "none" THEN Rewritten(<<>>) ELSE f

Opened(f) == IF f.exists THEN SessionOf(f.lines, TRUE) ELSE EmptySession

-----------------------------------------------------------------------------
(* The operations.                                                         *)

SessionFileInit ==
  /\ session = EmptySession
  /\ disk = NoSessionFile
  /\ counts = [next |-> 1, events |-> 0, forks |-> 0, cuts |-> 0, acked |-> {},
               forked |-> NoId]

CurrentPath == Path(session.fileEntries, session.leafId)

(* The agent appends the messages of its runs: an answer follows a message *)
(* or a compaction, a result an answer with calls or another result.       *)
AppendMessage ==
  \E type \in {"user", "assistant", "toolResult"} :
    LET path == CurrentPath
        last == SelectLastInSeq(path, IsMessage)
    IN /\ Room(1)
       /\ type # "user" => last # 0
       /\ type = "toolResult" => path[last].type \in {"assistant", "toolResult"}
       /\ \E cut \in Cuts(type) : Become(AppendSessionEntry(Now, type, NoId, {}, cut))

AppendInfo ==
  \E cut \in Cuts("info") :
    /\ Room(1)
    /\ Become(AppendSessionEntry(Now, "info", NoId, {}, cut))

ChangeLabel ==
  \E target \in IdsOf(session.fileEntries), type \in {"label", "unlabel"}, cut \in Cuts("label") :
    /\ Room(1) /\ MoreEvents
    /\ Become(AppendLabelChange(Event(Now), target, type, cut))

(* Going back to a user message is going back to before it.                *)
NewLeaf(entry) == IF entry.type = "user" THEN entry.parent ELSE entry.id

(* navigateTree, with a summary of the branch that is left and a label, or *)
(* without.                                                                *)
NavigateTree ==
  \E target \in IdsOf(session.fileEntries) \ {session.leafId}, label \in BOOLEAN :
    LET leaf  == NewLeaf(EntryOf(session.fileEntries, target))
        moved == [Event(Now) EXCEPT !.session.leafId = leaf]
        marked(now, entry, cut) ==
          IF label /\ now.ok THEN AppendLabelChange(now, entry, "label", cut) ELSE now
    IN /\ MoreEvents /\ Room(2)
       /\ leaf \in IdsOf(session.fileEntries) \cup {NoId}
       /\ \E labelCut \in (IF label THEN Cuts("label") ELSE {Whole}) :
            \/ Become(marked(moved, target, labelCut))
            \/ \E cut \in Cuts("summary") :
                 Become(marked(AppendSessionEntry(moved, "summary", NoId, {}, cut),
                               counts.next, labelCut))

-----------------------------------------------------------------------------
(* Compaction.                                                             *)

\* Mutant: the span begins behind the last compaction.
BoundaryBehindCompaction(path) == LastCompaction(path) + 1

(* The span begins where the one before it kept, or behind it.             *)
BoundaryStart(path) ==
  LET previous == LastCompaction(path)
      kept == PositionOf(path, path[previous].ref)
  IN IF previous = 0 THEN 1 ELSE IF kept > 0 THEN kept ELSE previous + 1

\* Mutant: tool results are cut points as well.
CutPointsAnywhere(path) ==
  {k \in BoundaryStart(path)..Len(path) : path[k].type \in Visible}

(* findValidCutPoints: never at a tool result.                             *)
CutPoints(path) ==
  {k \in BoundaryStart(path)..Len(path) : path[k].type \in Visible \ {"toolResult"}}

(* findCutPoint goes back over the metadata in front of the cut.           *)
FirstKept(path, cut) ==
  LET stops == {k \in BoundaryStart(path)..(cut - 1) : IsMessage(path[k])} IN
  IF stops = {} THEN BoundaryStart(path) ELSE Max(stops) + 1

(* compact and _runAutoCompaction: keepRecentTokens decides which of the   *)
(* cut points it is.                                                       *)
Compact ==
  LET path == CurrentPath IN
  \E cutPoint \in CutPoints(path), cut \in Cuts("compaction") :
    LET first  == FirstKept(path, cutPoint)
        covers == {path[k].id : k \in {n \in BoundaryStart(path)..(first - 1) :
                                         path[n].type \in Visible}}
    IN /\ Room(1)
       /\ Last(path).type # "compaction"
       /\ covers # {}
       /\ Become(AppendSessionEntry(Now, "compaction", path[first].id, covers, cut))

-----------------------------------------------------------------------------
(* Opening and forking.                                                    *)

(* The file is opened again, by this process or by the next one: what was  *)
(* only in memory is gone.                                                 *)
OpenAgain ==
  /\ MoreEvents
  /\ ~Refused(disk)
  /\ session' = Opened(disk)
  /\ disk' = OpenedFile(disk)
  /\ counts' = [counts EXCEPT !.events = @ + 1,
                              !.acked = @ \cup IdsOf(disk.lines)]

IsLabel(e) == e.type \in {"label", "unlabel"}

(* Every entry becomes the child of the one before it.                     *)
Chained(entries, root) ==
  [k \in DOMAIN entries |->
     [entries[k] EXCEPT !.parent = IF k = 1 THEN root ELSE entries[k - 1].id]]

(* A set of numbers from the least to the greatest.                        *)
Ascending(S) ==
  [n \in 1..Cardinality(S) |-> CHOOSE i \in S : Cardinality({k \in S : k <= i}) = n]

WithoutLabels(path) ==
  LET kept == Ascending({k \in DOMAIN path : ~IsLabel(path[k])})
  IN [n \in DOMAIN kept |-> path[kept[n]]]

\* Mutant: labels are left out without closing the gap.
PathWithoutLabelsUnchained(path) == WithoutLabels(path)

PathWithoutLabels(path) == Chained(WithoutLabels(path), NoId)

(* createBranchedSession: the path without its labels, then the labels of  *)
(* its entries.                                                            *)
BranchedEntries(path, labels, next) ==
  LET kept == PathWithoutLabels(path)
      targets == Ascending(labels \cap IdsOf(kept))
      new == [k \in DOMAIN targets |->
                [id |-> next + k - 1, parent |-> NoId, type |-> "label",
                 ref |-> targets[k], covers |-> {}]]
  IN kept \o Chained(new, IF kept = <<>> THEN NoId ELSE Last(kept).id)

(* fork and clone, from the entries in the file; without an answer the new *)
(* session is not written yet.  (When writing it fails, the old session    *)
(* goes on.)                                                               *)
Fork ==
  \E entry \in ToSet(session.fileEntries), position \in {"before", "at"} :
    LET target == IF position = "at" THEN entry.id ELSE entry.parent
        source == Opened(disk)
        new    == BranchedEntries(Path(source.fileEntries, target), source.labels,
                                  counts.next)
        saved  == HasAssistant(new)
    IN /\ MoreEvents
       /\ position = "before" => entry.type = "user"
       /\ IF target = NoId
          THEN /\ session' = EmptySession
               /\ disk' = NoSessionFile
               /\ counts' = [counts EXCEPT !.events = @ + 1, !.forks = @ + 1,
                                           !.acked = {}, !.forked = NoId]
          ELSE /\ disk.exists /\ ~Refused(disk)
               /\ target \in IdsOf(source.fileEntries)
               /\ Room(Cardinality(source.labels))
               /\ session' = SessionOf(new, saved)
               /\ disk' = IF saved THEN Rewritten(new) ELSE NoSessionFile
               /\ counts' = [counts EXCEPT
                               !.events = @ + 1, !.forks = @ + 1,
                               !.forked = target,
                               !.next = @ + Cardinality(IdsOf(new) \ IdsOf(source.fileEntries)),
                               !.acked = IF saved THEN IdsOf(new) ELSE {}]

SessionFileNext ==
  \/ AppendMessage
  \/ AppendInfo
  \/ ChangeLabel
  \/ NavigateTree
  \/ Compact
  \/ OpenAgain
  \/ Fork

SessionFileSpec == SessionFileInit /\ [][SessionFileNext]_sessionFileVars

-----------------------------------------------------------------------------
(* Properties.                                                             *)

SessionFileTypeOK ==
  /\ session \in [fileEntries : Seq(Entry), leafId : 0..MaxEntries,
                  labels : SUBSET (1..MaxEntries), flushed : BOOLEAN]
  /\ disk \in [exists : BOOLEAN, header : {"none", "torn", "ok"},
               lines : Seq(Entry), tail : Ends \ {"none"}]
  /\ counts.acked \subseteq 1..MaxEntries

(* Without a cut the file is the session: it does not exist before the     *)
(* first answer and holds exactly the entries in memory from then on,      *)
(* whatever was navigated, compacted, forked and opened again, and the     *)
(* labels in memory are those a load would find.                           *)
UncutFileIsSession ==
  counts.cuts = 0 =>
    /\ disk = IF session.flushed THEN Rewritten(session.fileEntries) ELSE NoSessionFile
    /\ session.flushed = HasAssistant(session.fileEntries)
    /\ session.labels = LabelsOf(session.fileEntries)

(* A write that stops half-way costs at most two entries that were         *)
(* acknowledged or seen, whatever follows it, unless it stopped in the     *)
(* header (_persist).                                                      *)
CutsLoseLittle ==
  disk.header # "torn" =>
    Cardinality(counts.acked \ IdsOf(disk.lines)) <= 2 * counts.cuts

FileIsSession == UncutFileIsSession /\ CutsLoseLittle

(* Every message of a branch is in the context of that branch or was given *)
(* to a compaction on it, through any compactions and navigations, as long *)
(* as the entries the compactions kept from are on it (ForkKeepsContext is *)
(* about those that are not); and no tool result loses its call to a cut   *)
(* point (findCutPoint, buildContextEntries).  Entries do not change, so   *)
(* every branch is looked at when its leaf is appended.                    *)
ContextComplete ==
  LET path    == CurrentPath
      context == ContextOf(path)
      compactions == {e \in ToSet(path) : e.type = "compaction"}
  IN counts.cuts = 0 /\ (\A e \in compactions : e.ref \in IdsOf(path)) =>
       /\ \A e \in ToSet(path) : e.type \in Visible =>
            \/ e \in ToSet(context)
            \/ \E c \in compactions : e.id \in c.covers
       /\ \A k \in DOMAIN context : context[k].type = "toolResult" =>
            \E j \in 1..(k - 1) :
              /\ context[j].type \in {"assistant", "toolResult"}
              /\ \A n \in (j + 1)..(k - 1) : ~IsMessage(context[n])

Source == Path(disk.lines, counts'.forked)
Branched == Path(session'.fileEntries, session'.leafId)

(* A fork holds the entries of the path it was taken from, in its order,   *)
(* and their labels and no others (createBranchedSession).                 *)
ForkKeepsPath ==
  [][counts'.forks # counts.forks =>
       LET old == SelectSeq(Source, LAMBDA e : ~IsLabel(e))
           new == SelectSeq(Branched, LAMBDA e : ~IsLabel(e))
       IN /\ IdsOf(new) = IdsOf(old)
          /\ Chained(new, NoId) = Chained(old, NoId)
          /\ Len(Branched) = Len(session'.fileEntries)
          /\ session'.labels = LabelsOf(disk.lines) \cap IdsOf(old)]_sessionFileVars

(* "Useful for extracting a single conversation path from a branched       *)
(* session": the model is sent the same messages in the fork as at the     *)
(* entry it was taken from.                                                *)
ForkKeepsContext ==
  [][counts'.forks # counts.forks =>
       MessageIds(ContextOf(Branched)) = MessageIds(ContextOf(Source))]_sessionFileVars

=============================================================================
