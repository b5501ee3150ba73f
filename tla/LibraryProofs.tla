---------------------------- MODULE LibraryProofs ----------------------------
(***************************************************************************)
(* Theorems about module Library, for every set of organizations, requests *)
(* and texts, every workload, limit and bound, and whatever fails.         *)
(*                                                                         *)
(* Of the cutting of a text most of them use only that it makes a sequence *)
(* of pieces (PiecesAreTexts).                                             *)
(***************************************************************************)
EXTENDS Library, ChunkingProofs, FiniteSetTheorems, TLAPS

\* The kinds that file documents, and the phases of a request that looks for chunks.
Files == {"ingest", "upload"}
Reading == {"search", "words", "found"}
Filing == {"check", "insert", "embed", "count", "ready"}

\* The document that r is at, as it is inserted; the chunks of a document; those
\* rows of a transaction that are of one document; and its finished documents.
RowAt(r, q) ==
    [id |-> <<r, q.file>>, base |-> ask[r].base, org |-> ask[r].org,
     body |-> ask[r].files[q.file], status |-> "embedding", chunk_count |-> 0]
RowsOf(d) ==
    {[document |-> d.id, base |-> d.base, org |-> d.org, sequence |-> i,
      content |-> PiecesOf[d.body][i]] : i \in 1 .. Len(PiecesOf[d.body])}
ChunksIn(rows, id) == {c \in rows : c.document = id}
ReadyIn(rows) == {d \in rows : d.status = "ready"}

\* A document is finished: its row is the last there will be, its chunks are there.
Finished(d, rows) ==
    /\ d.status = "ready"
    /\ d.chunk_count = Len(PiecesOf[d.body])
    /\ ChunksIn(rows, d.id) = RowsOf(d)

\* Which kinds get to which phase.
Reached(r, q) ==
    /\ q.phase = "insert" => ask[r].kind \in {"create_base", "create_agent"} \cup Files
    /\ q.phase \in {"check", "embed", "count"} => ask[r].kind \in Files
    /\ q.phase \in Reading => ask[r].kind \in {"search", "chat", "run"}
    /\ q.phase \in {"tools", "compose"} => ask[r].kind = "run"

\* What a request that files documents has written: the files before the one it
\* is at are finished or were turned down; the one it is at is under way.
Filed(r, q, p) ==
    /\ ask[r].kind \in Files /\ q.phase \in Filing =>
          q.file \in 1 .. Len(ask[r].files) /\ bases[ask[r].base].org = ask[r].org
    /\ IsFiniteSet(p.documents) /\ IsFiniteSet(p.chunks)
    /\ \A d \in p.documents :
          /\ ask[r].kind \in Files /\ q.phase \in Filing
          /\ d.base = ask[r].base /\ d.org = ask[r].org
          /\ d.id[1] = r /\ d.id[2] <= q.file
          /\ d.id[2] = q.file => q.phase \in {"embed", "count", "ready"}
          /\ \/ d = RowAt(r, q) /\ q.phase \in {"embed", "count"}
             \/ /\ Finished(d, p.chunks)
                /\ q.phase \in {"embed", "count"} => d.id[2] # q.file
    /\ \A c \in p.chunks :
          /\ c.base = ask[r].base /\ c.org = ask[r].org
          /\ \E d \in p.documents : d.id = c.document
          /\ c.document[2] = q.file => q.phase \in {"count", "ready"}
    /\ q.phase \in {"embed", "count"} => RowAt(r, q) \in p.documents
    /\ q.phase = "count" => ChunksIn(p.chunks, <<r, q.file>>) = RowsOf(RowAt(r, q))

\* The base's count is as much more than it was as there are finished documents,
\* and nobody else can have changed it since.
CountedUp(r, p) ==
    /\ p.count = 0 <=> ReadyIn(p.documents) = {}
    /\ p.count > 0 =>
          p.count = bases[ask[r].base].document_count + Cardinality(ReadyIn(p.documents))

\* No text of it is in the base, or twice among its own.
NoTwins(r, q, p) ==
    /\ \A d, e \in p.documents : d.body = e.body => d = e
    /\ \A d \in p.documents, e \in documents : d.base = e.base => d.body # e.body
    /\ ask[r].kind \in Files /\ q.phase = "insert" =>
          \A d \in p.documents : d.body # ask[r].files[q.file]

\* What has been found is there and of the organization, and so is what is cited.
Retrieved(r, q, p) ==
    /\ \A c \in q.hits \cup q.nearest : c \in chunks /\ c.org = ask[r].org
    /\ IsFiniteSet(p.citations) /\ Cardinality(p.citations) <= CHAT_RETRIEVE_LIMIT
    /\ \A c \in p.citations :
          /\ c.message = r /\ c.org = ask[r].org
          /\ c.chunk \in chunks /\ c.chunk.org = ask[r].org

\* n steps in a row, retrieval only first.
InARow(r, some, n) ==
    /\ IsFiniteSet(some) /\ Cardinality(some) = n
    /\ \A s \in some : s.run = r /\ s.sequence \in 1 .. n
    /\ \A i \in 1 .. n : \E s \in some : s.sequence = i
    /\ \A s \in some : s.node = "retrieve" => s.sequence = 1

\* A run that has ended, as RunsTellTheirSteps has it.
Ended(r, run, some, marks) ==
    LET last == IF run.status = "completed" THEN run.step_count ELSE run.step_count - 1 IN
    /\ run.status # "running"
    /\ InARow(r, some, last)
    /\ \A s \in some : s.node = "compose" <=> run.status = "completed" /\ s.sequence = last
    /\ marks = IF run.status = "completed" THEN {[run |-> r, step |-> last]} ELSE {}

\* What a run has written by the phase it is in.
Told(r, q, p) ==
    IF ask[r].kind = "run" /\ q.phase \in Reading \cup {"tools", "compose", "ready"}
    THEN /\ p.run.org = ask[r].org
         /\ q.phase = "ready" =>
               /\ Ended(r, p.run, p.steps, p.checkpoints)
               /\ p.run.citations = q.hits
         /\ q.phase # "ready" =>
               /\ InARow(r, p.steps, q.sequence)
               /\ \A s \in p.steps : s.node # "compose"
               /\ p.checkpoints = {} /\ p.run.citations = {}
         /\ q.phase \in Reading => q.sequence = 0
         /\ q.phase \notin Reading =>
               /\ IsFiniteSet(q.hits) /\ Cardinality(q.hits) <= RUN_LIMIT
               /\ q.hits # {} => \E s \in p.steps : s.node = "retrieve"
    ELSE p.run = NoRun /\ p.steps = {} /\ p.checkpoints = {}

\* A base is made empty.
Founding(r, p) ==
    p.base # NoBase => /\ ask[r].kind = "create_base"
                       /\ p.base.org = ask[r].org /\ p.base.document_count = 0

Sound(r, q, p) ==
    /\ Reached(r, q) /\ Filed(r, q, p) /\ CountedUp(r, p) /\ NoTwins(r, q, p)
    /\ Retrieved(r, q, p) /\ Told(r, q, p) /\ Founding(r, p)

\* Until it is done, nothing is named after a request.
Unborn(r) ==
    /\ bases[r] = NoBase /\ runs[r] = NoRun
    /\ \A d \in documents : d.id[1] # r
    /\ \A c \in chunks : c.document[1] # r
    /\ \A c \in citations : c.message # r

\* Two transactions have not written the same text of a base, or its count.
Apart(r, p, x, o) ==
    /\ p.count > 0 /\ o.count > 0 => ask[r].base # ask[x].base
    /\ \A d \in p.documents, e \in o.documents : d.base = e.base => d.body # e.body

\* A chunk is of a document of its base, and of the organization of that.
Stocked ==
    /\ IsFiniteSet(documents) /\ IsFiniteSet(chunks)
    /\ \A c \in chunks :
          /\ bases[c.base].org = c.org
          /\ \E d \in documents : d.id = c.document /\ d.base = c.base

\* What is cited is stored, and of the organization that cites it.
Cited ==
    /\ \A c \in citations : c.chunk \in chunks /\ c.chunk.org = c.org
    /\ \A m \in Requests : Cardinality({c \in citations : c.message = m})
                              <= CHAT_RETRIEVE_LIMIT
    /\ \A r \in Requests : /\ Cardinality(runs[r].citations) <= RUN_LIMIT
                           /\ \A c \in runs[r].citations : c \in chunks /\ c.org = runs[r].org

\* A run that is stored has ended; without one there are no steps of it.
RunsAreTold ==
    \A r \in Requests :
        IF runs[r].org = None THEN StepsOf(r) = {} /\ CheckpointsOf(r) = {}
        ELSE /\ Ended(r, runs[r], StepsOf(r), CheckpointsOf(r))
             /\ runs[r].citations # {} => \E s \in StepsOf(r) : s.node = "retrieve"

LibraryInv ==
    /\ LibraryTypeOK
    /\ \A r \in Requests : /\ Sound(r, request[r], pending[r])
                           /\ request[r].phase # "done" => Unborn(r)
    /\ \A r, x \in Requests : r # x => Apart(r, pending[r], x, pending[x])
    /\ Stocked /\ WholeDocuments /\ Cited /\ RunsAreTold

-----------------------------------------------------------------------------
(***************************************************************************)
(* What all steps do to what is stored: they add to it.                    *)
(***************************************************************************)
Added ==
    /\ \A b \in Requests : bases[b].org # None => bases'[b].org = bases[b].org
    /\ documents \subseteq documents' /\ chunks \subseteq chunks'

LEMMA BodiesAreTexts == ASSUME NEW body \in Bodies PROVE body \in Seq(Seq(Nat))
<1>1. body \in Seq(Seq(Nat \ {0}))
  BY LibraryAssumption
<1>2. Seq(Nat \ {0}) \subseteq Seq(Nat)
  BY SeqMonotonic
<1> QED BY <1>1, <1>2, SeqMonotonic

LEMMA PiecesAreTexts == PiecesOf \in [Bodies -> Seq(Seq(Nat))]
<1>1. \A body \in Bodies : chunk_text(body) \in Seq(Seq(Nat))
  BY BodiesAreTexts, ChunksType
<1> QED BY <1>1 DEF PiecesOf

LEMMA OrgsAreSome ==
    ASSUME LibraryTypeOK, NEW r \in Requests
    PROVE  /\ ask[r].org \in Orgs /\ ask[r].org # None
           /\ ask[r].base \in Requests /\ ask[r].agent \in Requests
           /\ ask[r].files \in Seq(Bodies)
           /\ \A i \in 1 .. Len(ask[r].files) : ask[r].files[i] \in Bodies
<1>1. ask[r] \in Ask
  BY DEF LibraryTypeOK
<1>2. ask[r].org \in Orgs /\ ask[r].base \in Requests /\ ask[r].agent \in Requests
      /\ ask[r].files \in Seq(Bodies)
  BY <1>1 DEF Ask
<1> QED BY <1>2, LibraryAssumption

\* What a request has written stays sound when others add to what is stored: not
\* the texts it has inserted, nor to the count it holds.
LEMMA SoundKept ==
    ASSUME LibraryTypeOK, NEW x \in Requests, NEW q, NEW p, Sound(x, q, p),
           ask' = ask, Added,
           p.count > 0 => bases'[ask[x].base].document_count
                             = bases[ask[x].base].document_count,
           \A d \in p.documents, e \in documents' \ documents :
              d.base = e.base => d.body # e.body
    PROVE  Sound(x, q, p)'
<1>1. /\ ask[x].org # None /\ ask[x].base \in Requests
  BY OrgsAreSome
<1>2. Reached(x, q)'
  BY DEF Sound, Reached
<1>3. RowAt(x, q)' = RowAt(x, q)
  BY DEF RowAt
<1>4. Filed(x, q, p)'
  <2>1. Filed(x, q, p)
    BY DEF Sound
  <2>2. ask[x].kind \in Files /\ q.phase \in Filing =>
           q.file \in 1 .. Len(ask[x].files) /\ bases'[ask[x].base].org = ask[x].org
    BY <1>1, <2>1 DEF Filed, Added
  <2> QED BY <1>3, <2>1, <2>2 DEF Filed
<1>5. CountedUp(x, p)'
  BY DEF Sound, CountedUp
<1>6. NoTwins(x, q, p)'
  BY DEF Sound, NoTwins
<1>7. Retrieved(x, q, p)'
  BY DEF Sound, Retrieved, Added
<1>8. Told(x, q, p)'
  BY DEF Sound, Told
<1>9. Founding(x, p)'
  BY DEF Sound, Founding
<1> QED BY <1>2, <1>4, <1>5, <1>6, <1>7, <1>8, <1>9 DEF Sound

LEMMA ApartEitherWay ==
    ASSUME NEW r, NEW p, NEW x, NEW o, Apart(r, p, x, o)
    PROVE  Apart(x, o, r, p)
  BY DEF Apart

(***************************************************************************)
(* A step of one request before its commit: the invariant holds after it   *)
(* when what the request has then written is sound and apart from others.  *)
(***************************************************************************)
LEMMA QuietStep ==
    ASSUME LibraryInv, NEW r \in Requests, NEW q \in RequestState, NEW p \in Writes,
           Continue(r, q), Write(r, p), UNCHANGED <<ask, stored>>,
           request[r].phase # "done", Sound(r, q, p),
           \A x \in Requests \ {r} : Apart(r, p, x, pending[x])
    PROVE  LibraryInv'
<1>1. /\ request' \in [Requests -> RequestState] /\ pending' \in [Requests -> Writes]
      /\ request'[r] = q /\ pending'[r] = p
      /\ \A x \in Requests \ {r} : request'[x] = request[x] /\ pending'[x] = pending[x]
  BY DEF LibraryInv, LibraryTypeOK, Continue, Write
<1>2. LibraryTypeOK'
  BY <1>1 DEF LibraryInv, LibraryTypeOK, AgentTables, RunTables, KnowledgeTables,
              CitationTable, stored
<1>3. Added /\ ask' = ask /\ documents' = documents /\ bases' = bases
  BY DEF Added, stored
<1>4. ASSUME NEW x \in Requests PROVE Sound(x, request[x], pending[x])'
  <2>1. Sound(x, request'[x], pending'[x])
    BY <1>1 DEF LibraryInv
  <2> SUFFICES ASSUME NEW y, y = request'[x], NEW o, o = pending'[x], Sound(x, y, o)
               PROVE  Sound(x, y, o)'
    BY <2>1
  <2> QED BY <1>3, SoundKept DEF LibraryInv
<1>5. ASSUME NEW x \in Requests, request'[x].phase # "done" PROVE Unborn(x)'
  <2>1. Unborn(x)
    BY <1>1, <1>5 DEF LibraryInv
  <2> QED BY <2>1 DEF Unborn, stored
<1>6. ASSUME NEW y \in Requests, NEW x \in Requests, y # x
      PROVE  Apart(y, pending[y], x, pending[x])'
  <2>1. Apart(y, pending'[y], x, pending'[x])
    BY <1>1, <1>6, ApartEitherWay DEF LibraryInv
  <2> QED BY <2>1 DEF Apart
<1>7. (Stocked /\ WholeDocuments /\ Cited /\ RunsAreTold)'
  <2>1. Stocked /\ WholeDocuments /\ Cited /\ RunsAreTold
    BY DEF LibraryInv
  <2>2. WholeDocuments'
    BY <2>1 DEF WholeDocuments, WholeDocument, ChunksOf, DocumentsOf, stored
  <2>3. RunsAreTold'
    <3>1. /\ runs' = runs /\ \A x \in Requests : StepsOf(x)' = StepsOf(x)
          /\ \A x \in Requests : CheckpointsOf(x)' = CheckpointsOf(x)
      BY DEF StepsOf, CheckpointsOf, stored
    <3> QED BY <2>1, <3>1 DEF RunsAreTold
  <2> QED BY <2>1, <2>2, <2>3 DEF Stocked, Cited, stored
<1> QED BY <1>2, <1>4, <1>5, <1>6, <1>7 DEF LibraryInv

\* A request that fails, is refused or goes on without having written.
LEMMA QuietSame ==
    ASSUME LibraryInv, NEW r \in Requests, NEW q \in RequestState,
           Continue(r, q), UNCHANGED <<ask, stored, pending>>,
           request[r].phase # "done", Sound(r, q, pending[r])
    PROVE  LibraryInv'
<1>1. pending[r] \in Writes /\ Write(r, pending[r])
  BY DEF LibraryInv, LibraryTypeOK, Write
<1>2. \A x \in Requests \ {r} : Apart(r, pending[r], x, pending[x])
  BY DEF LibraryInv
<1>3. UNCHANGED <<ask, stored>>
  OBVIOUS
<1> QED BY <1>1, <1>2, <1>3, QuietStep

LEMMA FactsOf ==
    ASSUME LibraryInv, NEW r \in Requests
    PROVE  /\ LibraryTypeOK /\ request[r] \in RequestState /\ pending[r] \in Writes
           /\ Sound(r, request[r], pending[r])
           /\ Reached(r, request[r]) /\ Filed(r, request[r], pending[r])
           /\ CountedUp(r, pending[r]) /\ NoTwins(r, request[r], pending[r])
           /\ Retrieved(r, request[r], pending[r]) /\ Told(r, request[r], pending[r])
           /\ Founding(r, pending[r])
  BY DEF LibraryInv, LibraryTypeOK, Sound

LEMMA NothingIsWritten ==
    /\ Nothing \in Writes
    /\ Nothing.base = NoBase /\ Nothing.count = 0 /\ Nothing.documents = {}
    /\ Nothing.chunks = {} /\ Nothing.citations = {} /\ Nothing.run = NoRun
    /\ Nothing.steps = {} /\ Nothing.checkpoints = {}
<1>1. NoBase \in Base /\ NoAgent \in Agent /\ NoRun \in Run
  BY DEF NoBase, Base, NoAgent, Agent, NoRun, Run
<1> QED BY <1>1 DEF Nothing, Writes

\* Without documents and citations, a request is sound when its kind gets to the
\* phase it is in, and what it says of a base or a run is true.
LEMMA WithoutDocuments ==
    ASSUME NEW r \in Requests, NEW q, NEW p,
           p.documents = {}, p.chunks = {}, p.count = 0, p.citations = {},
           Reached(r, q), q.phase \notin {"embed", "count"},
           ask[r].kind \in Files /\ q.phase \in Filing =>
              q.file \in 1 .. Len(ask[r].files) /\ bases[ask[r].base].org = ask[r].org,
           \A c \in q.hits \cup q.nearest : c \in chunks /\ c.org = ask[r].org,
           Told(r, q, p), Founding(r, p)
    PROVE  /\ Sound(r, q, p)
           /\ \A x \in Requests : Apart(r, p, x, pending[x])
<1>1. IsFiniteSet({}) /\ Cardinality({}) = 0
  BY FS_EmptySet
<1>2. CHAT_RETRIEVE_LIMIT >= 0
  BY LibraryAssumption
<1>3. Filed(r, q, p)
  BY <1>1 DEF Filed
<1>4. CountedUp(r, p)
  BY DEF CountedUp, ReadyIn
<1>5. NoTwins(r, q, p)
  BY DEF NoTwins
<1>6. Retrieved(r, q, p)
  BY <1>1, <1>2 DEF Retrieved
<1>7. Sound(r, q, p)
  BY <1>3, <1>4, <1>5, <1>6 DEF Sound
<1>8. \A x \in Requests : Apart(r, p, x, pending[x])
  BY DEF Apart
<1> QED BY <1>7, <1>8

\* A state that is blank but for its phase, and the bases it has to search.
Begins(q, phase) ==
    \/ q = [Blank EXCEPT !.phase = phase]
    \/ \E todo \in SUBSET Requests : q = [Blank EXCEPT !.phase = phase, !.todo = todo]

LEMMA BlankStates ==
    ASSUME NEW q,
           NEW phase \in {"check", "insert", "search", "tools", "ready", "done", "failed",
                          "refused"},
           Begins(q, phase)
    PROVE  /\ q \in RequestState /\ q.phase = phase /\ q.file = 1 /\ q.hits = {}
           /\ q.nearest = {} /\ q.sequence = 0
<1>1. Blank \in RequestState
  BY DEF Blank, RequestState
<1>2. CASE q = [Blank EXCEPT !.phase = phase]
  <2>1. q \in RequestState
    BY <1>1, <1>2 DEF RequestState
  <2> QED BY <1>2, <2>1 DEF Blank
<1>3. ASSUME NEW todo \in SUBSET Requests,
             q = [Blank EXCEPT !.phase = phase, !.todo = todo]
      PROVE  /\ q \in RequestState /\ q.phase = phase /\ q.file = 1 /\ q.hits = {}
             /\ q.nearest = {} /\ q.sequence = 0
  <2>1. q \in RequestState
    BY <1>1, <1>3 DEF RequestState
  <2> QED BY <1>3, <2>1 DEF Blank
<1> QED BY <1>2, <1>3 DEF Begins

LEMMA RollbackStep ==
    ASSUME LibraryInv, NEW r \in Requests, NEW phase \in {"failed", "refused"},
           Rollback(r, phase), UNCHANGED <<ask, stored>>, request[r].phase # "done"
    PROVE  LibraryInv'
<1> SUFFICES ASSUME NEW q, q = [Blank EXCEPT !.phase = phase]
             PROVE  LibraryInv'
  OBVIOUS
<1>1. q \in RequestState /\ q.phase = phase /\ q.hits = {} /\ q.nearest = {}
  <2>1. Begins(q, phase)
    BY DEF Begins
  <2> QED BY <2>1, BlankStates
<1>2. Reached(r, q)
  BY <1>1 DEF Reached, Reading
<1>3. Told(r, q, Nothing) /\ Founding(r, Nothing)
  BY <1>1, NothingIsWritten DEF Told, Founding, Reading
<1>4. q.phase \notin Filing
  BY <1>1 DEF Filing
<1>5. Sound(r, q, Nothing) /\ \A x \in Requests : Apart(r, Nothing, x, pending[x])
  BY <1>1, <1>2, <1>3, <1>4, NothingIsWritten, WithoutDocuments
<1>6. Continue(r, q) /\ Write(r, Nothing)
  BY DEF Rollback
<1> QED BY <1>1, <1>5, <1>6, NothingIsWritten, QuietStep

-----------------------------------------------------------------------------
(***************************************************************************)
(* Steps that open a transaction.                                          *)
(***************************************************************************)
LEMMA OpensStep ==
    ASSUME LibraryInv, NEW r \in Requests, request[r].phase = "new",
           NEW q, Continue(r, q), UNCHANGED <<ask, stored, pending>>,
           NEW phase \in {"check", "insert", "search", "ready"},
           Begins(q, phase),
           phase = "insert" => ask[r].kind \in {"create_base", "create_agent"},
           phase = "search" => ask[r].kind \in {"search", "chat"},
           phase = "ready" => ask[r].kind = "chat",
           phase = "check" => /\ ask[r].kind \in Files /\ Len(ask[r].files) >= 1
                              /\ bases[ask[r].base].org = ask[r].org
    PROVE  LibraryInv'
<1> SUFFICES ASSUME NEW p, p = pending[r]
             PROVE  LibraryInv'
  OBVIOUS
<1>1. q \in RequestState /\ q.phase = phase /\ q.file = 1 /\ q.hits = {} /\ q.nearest = {}
  BY BlankStates
<1>2. ask[r].kind # "run" /\ (ask[r].kind \in Files => phase = "check")
  BY DEF Files
<1>3. Reached(r, q)
  BY <1>1 DEF Reached, Reading
<1>4. p.documents = {} /\ p.chunks = {}
  BY FactsOf DEF Filed, Filing
<1>5. 1 \in 1 .. Len(ask[r].files) \/ phase # "check"
  BY OrgsAreSome DEF LibraryInv
<1>6. Filed(r, q, p)
  <2>1. Filed(r, request[r], p)
    BY FactsOf
  <2> QED BY <1>1, <1>2, <1>4, <1>5, <2>1 DEF Filed
<1>7. NoTwins(r, q, p) /\ CountedUp(r, p)
  BY <1>4, FactsOf DEF NoTwins
<1>8. Retrieved(r, q, p)
  <2>1. Retrieved(r, request[r], p)
    BY FactsOf
  <2> QED BY <1>1, <2>1 DEF Retrieved
<1>9. Told(r, q, p)
  BY <1>2, FactsOf DEF Told, Reading
<1>10. Sound(r, q, p)
  BY <1>3, <1>6, <1>7, <1>8, <1>9, FactsOf DEF Sound
<1> QED BY <1>1, <1>10, QuietSame

LEMMA OpenKeeps ==
    ASSUME LibraryInv, NEW r \in Requests,
           FindName(r) \/ FindBase(r) \/ StartSearch(r) \/ StartChat(r) \/ CheckSlug(r)
    PROVE  LibraryInv'
<1>1. request[r].phase = "new" /\ UNCHANGED <<ask, stored>>
  BY DEF FindName, FindBase, StartSearch, StartChat, CheckSlug, Starts
<1>2. CASE Rollback(r, "refused")
  BY <1>1, <1>2, RollbackStep
<1>3. ASSUME FindName(r), ~Rollback(r, "refused") PROVE LibraryInv'
  <2> SUFFICES ASSUME NEW q, q = [Blank EXCEPT !.phase = "insert"]
               PROVE  LibraryInv'
    OBVIOUS
  <2>1. /\ ask[r].kind = "create_base" /\ UNCHANGED <<ask, stored, pending>>
        /\ Continue(r, q) /\ Begins(q, "insert")
    BY <1>3 DEF FindName, Starts, Begins
  <2> QED BY <1>1, <2>1, OpensStep
<1>4. ASSUME CheckSlug(r), ~Rollback(r, "refused") PROVE LibraryInv'
  <2> SUFFICES ASSUME NEW q, q = [Blank EXCEPT !.phase = "insert"]
               PROVE  LibraryInv'
    OBVIOUS
  <2>1. /\ ask[r].kind = "create_agent" /\ UNCHANGED <<ask, stored, pending>>
        /\ Continue(r, q) /\ Begins(q, "insert")
    BY <1>4 DEF CheckSlug, Starts, Begins
  <2> QED BY <1>1, <2>1, OpensStep
<1>5. ASSUME FindBase(r), ~Rollback(r, "refused") PROVE LibraryInv'
  <2> SUFFICES ASSUME NEW q, q = [Blank EXCEPT !.phase = "check"]
               PROVE  LibraryInv'
    OBVIOUS
  <2>1. /\ ask[r].kind \in Files /\ UNCHANGED <<ask, stored, pending>>
        /\ Continue(r, q) /\ Begins(q, "check")
        /\ Len(ask[r].files) \in 1 .. MAX_FILES
        /\ bases[ask[r].base].org = ask[r].org
    BY <1>5 DEF FindBase, Starts, Begins, Files, get_base, Visible
  <2>2. Len(ask[r].files) >= 1
    BY <2>1
  <2> QED BY <1>1, <2>1, <2>2, OpensStep
<1>6. ASSUME StartSearch(r), ~Rollback(r, "refused") PROVE LibraryInv'
  <2> SUFFICES ASSUME NEW todo, todo = {ask[r].base},
                      NEW q, q = [Blank EXCEPT !.phase = "search", !.todo = todo]
               PROVE  LibraryInv'
    OBVIOUS
  <2>1. /\ ask[r].kind = "search" /\ UNCHANGED <<ask, stored, pending>>
        /\ Continue(r, q)
    BY <1>6 DEF StartSearch, Starts
  <2>2. Begins(q, "search")
    <3>1. todo \in SUBSET Requests
      BY OrgsAreSome DEF LibraryInv
    <3> QED BY <3>1 DEF Begins
  <2> QED BY <1>1, <2>1, <2>2, OpensStep
<1>7. ASSUME StartChat(r) PROVE LibraryInv'
  <2> SUFFICES ASSUME NEW listed, listed = {b \in Requests : get_base(r, b)},
                      NEW phase, phase = (IF listed = {} THEN "ready" ELSE "search"),
                      NEW q, q = [Blank EXCEPT !.phase = phase, !.todo = listed]
               PROVE  LibraryInv'
    OBVIOUS
  <2>1. /\ ask[r].kind = "chat" /\ UNCHANGED <<ask, stored, pending>>
        /\ Continue(r, q)
    BY <1>7 DEF StartChat, Starts
  <2>2. Begins(q, phase) /\ phase \in {"ready", "search"}
    <3>1. listed \in SUBSET Requests
      OBVIOUS
    <3> QED BY <3>1 DEF Begins
  <2> QED BY <1>1, <2>1, <2>2, OpensStep
<1> QED BY <1>2, <1>3, <1>4, <1>5, <1>6, <1>7

\* A run begins without steps; a publication writes nothing of these tables.
LEMMA StartRunKeeps ==
    ASSUME LibraryInv, NEW r \in Requests, StartRun(r)
    PROVE  LibraryInv'
<1> SUFFICES ASSUME NEW a, a = ask[r].agent,
                    NEW reads, reads = ("knowledge_search" \in agents[a].tools
                                        /\ agents[a].shelf # {}),
                    NEW q, q = [Blank EXCEPT !.phase = IF reads THEN "search" ELSE "tools",
                                             !.todo = IF reads THEN agents[a].shelf ELSE {}],
                    NEW run, run = [NoRun EXCEPT !.org = agents[a].org, !.agent = a],
                    NEW p, p = [Nothing EXCEPT !.run = run]
             PROVE  LibraryInv'
  OBVIOUS
<1>1. /\ request[r].phase = "new" /\ ask[r].kind = "run" /\ UNCHANGED <<ask, stored>>
      /\ \/ Rollback(r, "refused")
         \/ Write(r, p) /\ Continue(r, q) /\ agents[a].org = ask[r].org
  BY DEF StartRun, Starts, get_agent, Visible
<1>2. CASE Rollback(r, "refused")
  BY <1>1, <1>2, RollbackStep
<1>3. CASE Write(r, p) /\ Continue(r, q) /\ agents[a].org = ask[r].org
  <2>1. ask[r].org \in Orgs /\ a \in Requests /\ agents[a].shelf \in SUBSET Requests
    <3>1. a \in Requests /\ ask[r].org \in Orgs
      BY OrgsAreSome DEF LibraryInv
    <3>2. agents[a] \in Agent
      BY <3>1 DEF LibraryInv, LibraryTypeOK, AgentTables
    <3> QED BY <3>1, <3>2 DEF Agent
  <2>2. /\ q \in RequestState /\ q.phase \in {"search", "tools"} /\ q.hits = {}
        /\ q.nearest = {} /\ q.sequence = 0
    <3> SUFFICES ASSUME NEW phase, phase = (IF reads THEN "search" ELSE "tools"),
                        NEW todo, todo = (IF reads THEN agents[a].shelf ELSE {}),
                        q = [Blank EXCEPT !.phase = phase, !.todo = todo]
                 PROVE  /\ q \in RequestState /\ q.phase \in {"search", "tools"} /\ q.hits = {}
                        /\ q.nearest = {} /\ q.sequence = 0
      OBVIOUS
    <3>1. phase \in {"search", "tools"} /\ todo \in SUBSET Requests
      BY <2>1
    <3>2. Begins(q, phase)
      BY <3>1 DEF Begins
    <3> QED BY <3>1, <3>2, BlankStates
  <2>3. run \in Run /\ run.org = ask[r].org /\ run.citations = {}
    BY <1>3, <2>1 DEF NoRun, Run
  <2>4. /\ p \in Writes /\ p.run = run /\ p.base = NoBase /\ p.count = 0
        /\ p.documents = {} /\ p.chunks = {} /\ p.citations = {} /\ p.steps = {}
        /\ p.checkpoints = {}
    BY <2>3, NothingIsWritten DEF Nothing, Writes
  <2>5. Reached(r, q)
    BY <1>1, <2>2 DEF Reached, Reading
  <2>6. IsFiniteSet({}) /\ Cardinality({}) = 0 /\ RUN_LIMIT >= 0
    BY FS_EmptySet, LibraryAssumption
  <2>7. InARow(r, {}, 0)
    BY <2>6 DEF InARow
  <2>8. Told(r, q, p) /\ Founding(r, p)
    <3>1. p.run.org = ask[r].org /\ p.run.citations = {} /\ InARow(r, p.steps, q.sequence)
      BY <2>2, <2>3, <2>4, <2>7
    <3>2. IsFiniteSet(q.hits) /\ Cardinality(q.hits) <= RUN_LIMIT /\ q.hits = {}
      BY <2>2, <2>6
    <3>3. p.checkpoints = {} /\ \A s \in p.steps : s.node # "compose"
      BY <2>4
    <3>4. Told(r, q, p)
      BY <1>1, <2>2, <3>1, <3>2, <3>3 DEF Told, Reading
    <3> QED BY <2>4, <3>4 DEF Founding
  <2>9. Sound(r, q, p) /\ \A x \in Requests : Apart(r, p, x, pending[x])
    BY <1>1, <2>2, <2>4, <2>5, <2>8, WithoutDocuments DEF Files
  <2> QED BY <1>1, <1>3, <2>2, <2>4, <2>9, QuietStep
<1> QED BY <1>1, <1>2, <1>3

LEMMA PublishKeeps ==
    ASSUME LibraryInv, NEW r \in Requests, publish(r)
    PROVE  LibraryInv'
<1> SUFFICES ASSUME NEW q, q = [Blank EXCEPT !.phase = "ready"],
                    NEW p, p = [Nothing EXCEPT !.publishes = TRUE]
             PROVE  LibraryInv'
  OBVIOUS
<1>1. /\ request[r].phase = "new" /\ ask[r].kind = "publish" /\ UNCHANGED <<ask, stored>>
      /\ Rollback(r, "refused") \/ (Write(r, p) /\ Continue(r, q))
  BY DEF publish, Starts
<1>2. CASE Write(r, p) /\ Continue(r, q)
  <2>1. q \in RequestState /\ q.phase = "ready" /\ q.hits = {} /\ q.nearest = {}
    <3>1. Begins(q, "ready")
      BY DEF Begins
    <3> QED BY <3>1, BlankStates
  <2>2. /\ p \in Writes /\ p.run = NoRun /\ p.base = NoBase /\ p.count = 0
        /\ p.documents = {} /\ p.chunks = {} /\ p.citations = {} /\ p.steps = {}
        /\ p.checkpoints = {}
    BY NothingIsWritten DEF Nothing, Writes
  <2>3. Reached(r, q) /\ Told(r, q, p) /\ Founding(r, p)
    BY <1>1, <2>1, <2>2 DEF Reached, Told, Founding, Reading
  <2>4. Sound(r, q, p) /\ \A x \in Requests : Apart(r, p, x, pending[x])
    BY <1>1, <2>1, <2>2, <2>3, WithoutDocuments DEF Files
  <2> QED BY <1>1, <1>2, <2>1, <2>2, <2>4, QuietStep
<1> QED BY <1>1, <1>2, RollbackStep

\* The insertion of a base, or of an agent, is all there is of its request.
LEMMA InsertKeeps ==
    ASSUME LibraryInv, NEW r \in Requests, InsertBase(r) \/ InsertAgent(r)
    PROVE  LibraryInv'
<1> SUFFICES ASSUME NEW q, q = [request[r] EXCEPT !.phase = "ready"],
                    NEW b, b = [org |-> ask[r].org, name |-> ask[r].name,
                                document_count |-> 0],
                    NEW a, a = [org |-> ask[r].org, slug |-> ask[r].name,
                                status |-> "draft", shelf |-> ask[r].shelf,
                                tools |-> ask[r].tools]
             PROVE  LibraryInv'
  OBVIOUS
<1>1. /\ request[r].phase = "insert" /\ UNCHANGED <<ask, stored>>
      /\ ask[r].kind \in {"create_base", "create_agent"}
      /\ \/ Rollback(r, "failed")
         \/ /\ Continue(r, q)
            /\ \/ Write(r, [Nothing EXCEPT !.base = b]) /\ ask[r].kind = "create_base"
               \/ Write(r, [Nothing EXCEPT !.agent = a])
  BY DEF InsertBase, InsertAgent
<1>2. ASSUME NEW p, Write(r, p), Continue(r, q),
             \/ p = [Nothing EXCEPT !.base = b] /\ ask[r].kind = "create_base"
             \/ p = [Nothing EXCEPT !.agent = a]
      PROVE  LibraryInv'
  <2>1. /\ q \in RequestState /\ q.phase = "ready" /\ q.hits = request[r].hits
        /\ q.nearest = request[r].nearest
    BY FactsOf DEF RequestState
  <2>2. b \in Base /\ a \in Agent
    <3>1. ask[r] \in Ask
      BY DEF LibraryInv, LibraryTypeOK
    <3> QED BY <3>1 DEF Ask, Base, Agent
  <2>3. /\ p \in Writes /\ p.run = NoRun /\ p.count = 0
        /\ p.documents = {} /\ p.chunks = {} /\ p.citations = {} /\ p.steps = {}
        /\ p.checkpoints = {}
        /\ \/ p.base = b /\ ask[r].kind = "create_base"
           \/ p.base = NoBase
    BY <1>2, <2>2, NothingIsWritten DEF Nothing, Writes
  <2>4. Reached(r, q) /\ Told(r, q, p) /\ Founding(r, p)
    BY <1>1, <2>1, <2>3 DEF Reached, Told, Founding, Reading
  <2>5. \A c \in q.hits \cup q.nearest : c \in chunks /\ c.org = ask[r].org
    BY <2>1, FactsOf DEF Retrieved
  <2>6. Sound(r, q, p) /\ \A x \in Requests : Apart(r, p, x, pending[x])
    BY <1>1, <2>1, <2>3, <2>4, <2>5, WithoutDocuments DEF Files
  <2> QED BY <1>1, <1>2, <2>1, <2>3, <2>6, QuietStep
<1> QED BY <1>1, <1>2, RollbackStep

-----------------------------------------------------------------------------
(***************************************************************************)
(* Steps of those that retrieve: they file no documents.                   *)
(***************************************************************************)
LEMMA FilesNothing ==
    ASSUME LibraryInv, NEW r \in Requests, ask[r].kind \notin Files
    PROVE  /\ pending[r].documents = {} /\ pending[r].chunks = {}
           /\ pending[r].count = 0
<1>1. Filed(r, request[r], pending[r]) /\ CountedUp(r, pending[r])
  BY FactsOf
<1>2. pending[r].documents = {} /\ pending[r].chunks = {}
  BY <1>1 DEF Filed
<1> QED BY <1>1, <1>2 DEF CountedUp, ReadyIn

LEMMA SoundWithoutFiles ==
    ASSUME LibraryInv, NEW r \in Requests, ask[r].kind \notin Files, NEW q, NEW p,
           p.documents = pending[r].documents, p.chunks = pending[r].chunks,
           p.count = pending[r].count, p.base = pending[r].base,
           Reached(r, q), Retrieved(r, q, p), Told(r, q, p)
    PROVE  /\ Sound(r, q, p)
           /\ \A x \in Requests \ {r} : Apart(r, p, x, pending[x])
<1>1. p.documents = {} /\ p.chunks = {} /\ p.count = 0
  BY FilesNothing
<1>2. IsFiniteSet({})
  BY FS_EmptySet
<1>3. q.phase \notin {"embed", "count"}
  BY DEF Reached
<1>4. Filed(r, q, p)
  BY <1>1, <1>2, <1>3 DEF Filed
<1>5. CountedUp(r, p) /\ NoTwins(r, q, p)
  BY <1>1 DEF CountedUp, NoTwins, ReadyIn
<1>6. Founding(r, p)
  BY FactsOf DEF Founding
<1>7. \A x \in Requests \ {r} : Apart(r, p, x, pending[x])
  BY <1>1 DEF Apart
<1> QED BY <1>4, <1>5, <1>6, <1>7 DEF Sound

\* To look for chunks changes only what has been found.
LEMMA ReadsOn ==
    ASSUME LibraryInv, NEW r \in Requests, NEW q \in RequestState,
           Continue(r, q), UNCHANGED <<ask, stored, pending>>,
           request[r].phase \in Reading, q.phase \in Reading,
           q.sequence = request[r].sequence,
           \A c \in q.hits \cup q.nearest : c \in chunks /\ c.org = ask[r].org
    PROVE  LibraryInv'
<1>1. Reached(r, request[r]) /\ Retrieved(r, request[r], pending[r])
      /\ Told(r, request[r], pending[r])
  BY FactsOf
<1>2. ask[r].kind \notin Files
  BY <1>1 DEF Reached, Files
<1>3. Reached(r, q)
  BY <1>1 DEF Reached, Reading
<1>4. Retrieved(r, q, pending[r])
  BY <1>1 DEF Retrieved
<1>5. Told(r, q, pending[r])
  BY <1>1 DEF Told, Reading
<1>6. Sound(r, q, pending[r])
  BY <1>2, <1>3, <1>4, <1>5, SoundWithoutFiles
<1>7. request[r].phase # "done"
  BY DEF Reading
<1> QED BY <1>6, <1>7, QuietSame

\* What a request has found, and can read, is in the table.
LEMMA FoundIsThere ==
    ASSUME LibraryInv, NEW r \in Requests, NEW limit, NEW best \in Best(request[r].hits, limit)
    PROVE  /\ best \subseteq chunks /\ best \in SUBSET Chunk
           /\ \A c \in best : c.org = ask[r].org
           /\ IsFiniteSet(best) /\ Cardinality(best) <= limit
<1>1. best \subseteq request[r].hits
  BY DEF Best
<1>2. /\ request[r].hits \subseteq chunks
      /\ \A c \in request[r].hits : c.org = ask[r].org
  <2>1. Retrieved(r, request[r], pending[r])
    BY FactsOf
  <2> QED BY <2>1 DEF Retrieved
<1>3. IsFiniteSet(chunks) /\ chunks \in SUBSET Chunk
  BY DEF LibraryInv, Stocked, LibraryTypeOK, KnowledgeTables
<1>4. IsFiniteSet(best) /\ Cardinality(best) \in Nat
  BY <1>1, <1>2, <1>3, FS_Subset, FS_CardinalityType
<1>5. Cardinality(best) <= limit
  BY <1>4 DEF Best
<1> QED BY <1>1, <1>2, <1>3, <1>4, <1>5

LEMMA SearchVectorsKeeps ==
    ASSUME LibraryInv, NEW r \in Requests, SearchVectors(r)
    PROVE  LibraryInv'
<1>1. request[r].phase = "search" /\ UNCHANGED <<ask, stored, pending>>
  BY DEF SearchVectors
<1>2. request[r] \in RequestState /\ Retrieved(r, request[r], pending[r])
  BY FactsOf
<1>3. ASSUME NEW b \in request[r].todo, NEW nearest \in VectorHits(r, b), NEW q,
             q = [request[r] EXCEPT !.phase = "words", !.at = b, !.nearest = nearest],
             Continue(r, q)
      PROVE  LibraryInv'
  <2>1. \A c \in nearest : c \in chunks /\ c.org = ask[r].org
    BY <1>3 DEF VectorHits, Best, Readable, Visible
  <2>2. nearest \in SUBSET Chunk /\ b \in Requests
    BY <1>2, <2>1 DEF LibraryInv, LibraryTypeOK, KnowledgeTables, RequestState
  <2>3. q \in RequestState
    BY <1>2, <1>3, <2>2 DEF RequestState
  <2>4. q.phase = "words" /\ q.sequence = request[r].sequence /\ q.hits = request[r].hits
        /\ q.nearest = nearest
    BY <1>2, <1>3 DEF RequestState
  <2>5. \A c \in q.hits \cup q.nearest : c \in chunks /\ c.org = ask[r].org
    BY <1>2, <2>1, <2>4 DEF Retrieved
  <2>6. q.phase \in Reading /\ request[r].phase \in Reading
    BY <1>1, <2>4 DEF Reading
  <2> QED BY <1>1, <1>3, <2>3, <2>4, <2>5, <2>6, ReadsOn
<1>4. ASSUME NEW b \in request[r].todo, NEW phase \in {"search", "found"}, NEW q,
             q = [request[r] EXCEPT !.phase = phase, !.todo = @ \ {b}],
             Continue(r, q)
      PROVE  LibraryInv'
  <2>1. q \in RequestState
    BY <1>2, <1>4 DEF RequestState
  <2>2. q.phase = phase /\ q.sequence = request[r].sequence /\ q.hits = request[r].hits
        /\ q.nearest = request[r].nearest
    BY <1>2, <1>4 DEF RequestState
  <2>3. \A c \in q.hits \cup q.nearest : c \in chunks /\ c.org = ask[r].org
    BY <1>2, <2>2 DEF Retrieved
  <2>4. q.phase \in Reading /\ request[r].phase \in Reading
    BY <1>1, <2>2 DEF Reading
  <2> QED BY <1>1, <1>4, <2>1, <2>2, <2>3, <2>4, ReadsOn
<1>5. PICK b \in request[r].todo :
         IF get_base(r, b)
         THEN \E nearest \in VectorHits(r, b) :
                 Continue(r, [request[r] EXCEPT !.phase = "words", !.at = b,
                                                !.nearest = nearest])
         ELSE Continue(r, [request[r] EXCEPT
                              !.phase = IF request[r].todo = {b} THEN "found" ELSE "search",
                              !.todo = @ \ {b}])
  BY DEF SearchVectors
<1>6. CASE get_base(r, b)
  BY <1>3, <1>5, <1>6
<1>7. CASE ~get_base(r, b)
  <2> SUFFICES ASSUME NEW phase,
                      phase = (IF request[r].todo = {b} THEN "found" ELSE "search"),
                      Continue(r, [request[r] EXCEPT !.phase = phase, !.todo = @ \ {b}])
               PROVE  LibraryInv'
    BY <1>5, <1>7
  <2> QED BY <1>4
<1> QED BY <1>6, <1>7

LEMMA SearchWordsKeeps ==
    ASSUME LibraryInv, NEW r \in Requests, SearchWords(r)
    PROVE  LibraryInv'
<1> SUFFICES ASSUME NEW b, b = request[r].at,
                    NEW rest, rest = request[r].todo \ {b},
                    NEW phase, phase = (IF rest = {} THEN "found" ELSE "search")
             PROVE  LibraryInv'
  OBVIOUS
<1>1. /\ request[r].phase = "words" /\ UNCHANGED <<ask, stored, pending>>
      /\ \E words \in WordHits(r, b) :
           \E merged \in Merged(words, request[r].nearest, LimitOfBase(r)) :
              Continue(r, [request[r] EXCEPT !.phase = phase, !.todo = rest, !.at = None,
                                             !.nearest = {}, !.hits = @ \cup merged])
  BY DEF SearchWords
<1>2. request[r] \in RequestState /\ Retrieved(r, request[r], pending[r])
  BY FactsOf
<1>0. PICK words \in WordHits(r, b) :
         \E merged \in Merged(words, request[r].nearest, LimitOfBase(r)) :
            Continue(r, [request[r] EXCEPT !.phase = phase, !.todo = rest, !.at = None,
                                           !.nearest = {}, !.hits = @ \cup merged])
  BY <1>1
<1>3. PICK merged \in Merged(words, request[r].nearest, LimitOfBase(r)) :
         Continue(r, [request[r] EXCEPT !.phase = phase, !.todo = rest, !.at = None,
                                        !.nearest = {}, !.hits = @ \cup merged])
  BY <1>0
<1> SUFFICES ASSUME NEW q, q = [request[r] EXCEPT !.phase = phase, !.todo = rest, !.at = None,
                                                  !.nearest = {}, !.hits = @ \cup merged],
                    Continue(r, q)
             PROVE  LibraryInv'
  BY <1>3
<1>4. \A c \in words : c \in chunks /\ c.org = ask[r].org
  BY DEF WordHits, Readable, Visible
<1>5. merged \subseteq words \cup request[r].nearest
  BY DEF Merged, Best
<1>6. \A c \in merged : c \in chunks /\ c.org = ask[r].org
  BY <1>2, <1>4, <1>5 DEF Retrieved
<1>7. merged \in SUBSET Chunk
  BY <1>6 DEF LibraryInv, LibraryTypeOK, KnowledgeTables
<1>8. q \in RequestState
  BY <1>2, <1>7 DEF RequestState
<1>9. q.phase = phase /\ q.sequence = request[r].sequence /\ q.nearest = {}
      /\ q.hits = request[r].hits \cup merged
  BY <1>2 DEF RequestState
<1>10. \A c \in q.hits \cup q.nearest : c \in chunks /\ c.org = ask[r].org
  BY <1>2, <1>6, <1>9 DEF Retrieved
<1>11. q.phase \in Reading /\ request[r].phase \in Reading
  BY <1>1, <1>9 DEF Reading
<1> QED BY <1>1, <1>8, <1>9, <1>10, <1>11, ReadsOn

LEMMA AnswerSearchKeeps ==
    ASSUME LibraryInv, NEW r \in Requests, AnswerSearch(r)
    PROVE  LibraryInv'
<1> SUFFICES ASSUME NEW q, q = [request[r] EXCEPT !.phase = "ready"]
             PROVE  LibraryInv'
  OBVIOUS
<1>1. /\ ask[r].kind = "search" /\ request[r].phase = "found"
      /\ Continue(r, q) /\ UNCHANGED <<ask, stored, pending>>
  BY DEF AnswerSearch
<1>2. /\ request[r] \in RequestState
      /\ Retrieved(r, request[r], pending[r]) /\ Told(r, request[r], pending[r])
  BY FactsOf
<1>3. q \in RequestState
  BY <1>2 DEF RequestState
<1>4. q.phase = "ready" /\ q.hits = request[r].hits /\ q.nearest = request[r].nearest
  BY <1>2 DEF RequestState
<1>5. Reached(r, q)
  BY <1>4 DEF Reached, Reading
<1>6. Retrieved(r, q, pending[r])
  BY <1>2, <1>4 DEF Retrieved
<1>7. Told(r, q, pending[r])
  BY <1>1, <1>2 DEF Told
<1>8. ask[r].kind \notin Files
  BY <1>1 DEF Files
<1>9. Sound(r, q, pending[r])
  BY <1>5, <1>6, <1>7, <1>8, SoundWithoutFiles
<1> QED BY <1>1, <1>3, <1>9, QuietSame

LEMMA ImageIsNoLarger ==
    ASSUME NEW S, IsFiniteSet(S), NEW T, NEW f \in [S -> T],
           \A t \in T : \E s \in S : f[s] = t
    PROVE  IsFiniteSet(T) /\ Cardinality(T) <= Cardinality(S)
<1>1. f \in Surjection(S, T)
  BY DEF Surjection
<1> QED BY <1>1, FS_Surjection

\* A chat cites the chunks it has found, as many as the limit allows.
LEMMA persist_citationsKeeps ==
    ASSUME LibraryInv, NEW r \in Requests, persist_citations(r)
    PROVE  LibraryInv'
<1>1. /\ ask[r].kind = "chat" /\ request[r].phase = "found" /\ UNCHANGED <<ask, stored>>
      /\ LimitOfAll(r) = CHAT_RETRIEVE_LIMIT
  BY DEF persist_citations, LimitOfAll
<1>2. PICK hits \in Best(request[r].hits, LimitOfAll(r)) :
         /\ Write(r, [pending[r] EXCEPT !.citations =
                         {[message |-> r, org |-> ask[r].org, chunk |-> c] : c \in hits}])
         /\ Continue(r, [request[r] EXCEPT !.phase = "ready", !.hits = hits])
  BY DEF persist_citations
<1> SUFFICES ASSUME NEW cited,
                    cited = {[message |-> r, org |-> ask[r].org, chunk |-> c] : c \in hits},
                    NEW p, p = [pending[r] EXCEPT !.citations = cited], Write(r, p),
                    NEW q, q = [request[r] EXCEPT !.phase = "ready", !.hits = hits],
                    Continue(r, q)
             PROVE  LibraryInv'
  BY <1>2
<1>3. /\ request[r] \in RequestState /\ pending[r] \in Writes
      /\ Retrieved(r, request[r], pending[r]) /\ Told(r, request[r], pending[r])
  BY FactsOf
<1>4. /\ hits \subseteq chunks /\ hits \in SUBSET Chunk
      /\ \A c \in hits : c.org = ask[r].org
      /\ IsFiniteSet(hits) /\ Cardinality(hits) <= CHAT_RETRIEVE_LIMIT
  BY <1>1, FoundIsThere
<1>5. cited \in SUBSET Citation
  <2>1. ask[r].org \in Orgs
    BY OrgsAreSome DEF LibraryInv
  <2> QED BY <1>4, <2>1 DEF Citation
<1>6. IsFiniteSet(cited) /\ Cardinality(cited) <= CHAT_RETRIEVE_LIMIT
  <2> SUFFICES ASSUME NEW f, f = [c \in hits |-> [message |-> r, org |-> ask[r].org,
                                                 chunk |-> c]]
               PROVE  IsFiniteSet(cited) /\ Cardinality(cited) <= CHAT_RETRIEVE_LIMIT
    OBVIOUS
  <2>1. f \in [hits -> cited] /\ \A t \in cited : \E c \in hits : f[c] = t
    OBVIOUS
  <2>2. IsFiniteSet(cited) /\ Cardinality(cited) <= Cardinality(hits)
    BY <1>4, <2>1, ImageIsNoLarger
  <2>3. Cardinality(cited) \in Nat /\ Cardinality(hits) \in Nat /\ CHAT_RETRIEVE_LIMIT \in Nat
    BY <1>4, <2>2, FS_CardinalityType, LibraryAssumption
  <2> QED BY <1>4, <2>2, <2>3
<1>7. q \in RequestState
  BY <1>3, <1>4 DEF RequestState
<1>8. p \in Writes
  BY <1>3, <1>5 DEF Writes
<1>9. q.phase = "ready" /\ q.hits = hits /\ q.nearest = request[r].nearest
  BY <1>3 DEF RequestState
<1>10. /\ p.citations = cited /\ p.documents = pending[r].documents
       /\ p.chunks = pending[r].chunks /\ p.count = pending[r].count
       /\ p.base = pending[r].base /\ p.run = pending[r].run
       /\ p.steps = pending[r].steps /\ p.checkpoints = pending[r].checkpoints
  BY <1>3 DEF Writes
<1>11. Reached(r, q)
  BY <1>9 DEF Reached, Reading
<1>12. Retrieved(r, q, p)
  BY <1>3, <1>4, <1>6, <1>9, <1>10 DEF Retrieved
<1>13. Told(r, q, p)
  BY <1>1, <1>3, <1>10 DEF Told
<1>14. Sound(r, q, p) /\ \A x \in Requests \ {r} : Apart(r, p, x, pending[x])
  BY <1>1, <1>10, <1>11, <1>12, <1>13, SoundWithoutFiles DEF Files
<1> QED BY <1>1, <1>7, <1>8, <1>14, QuietStep

-----------------------------------------------------------------------------
(***************************************************************************)
(* Steps of runs.                                                          *)
(***************************************************************************)
LEMMA InARowGrows ==
    ASSUME NEW r, NEW some, NEW n \in Nat, InARow(r, some, n), NEW s,
           s.run = r, s.sequence = n + 1, s.node = "retrieve" => n = 0
    PROVE  InARow(r, some \cup {s}, n + 1)
<1>1. s \notin some
  BY DEF InARow
<1>2. IsFiniteSet(some \cup {s}) /\ Cardinality(some \cup {s}) = n + 1
  <2>1. IsFiniteSet(some) /\ Cardinality(some) = n
    BY DEF InARow
  <2> QED BY <1>1, <2>1, FS_AddElement
<1>3. \A t \in some \cup {s} : t.run = r /\ t.sequence \in 1 .. n + 1
  BY DEF InARow
<1>4. ASSUME NEW i \in 1 .. n + 1
      PROVE  \E t \in some \cup {s} : t.sequence = i
  <2>1. CASE i = n + 1
    BY <2>1
  <2>2. CASE i # n + 1
    <3>1. i \in 1 .. n
      BY <2>2
    <3>2. PICK t \in some : t.sequence = i
      BY <3>1 DEF InARow
    <3> QED BY <3>2
  <2> QED BY <2>1, <2>2
<1>5. \A t \in some \cup {s} : t.node = "retrieve" => t.sequence = 1
  BY DEF InARow
<1> QED BY <1>2, <1>3, <1>4, <1>5 DEF InARow

\* A run that has left its retrieval, and what its record of the next step is.
LEMMA FactsOfRun ==
    ASSUME LibraryInv, NEW r \in Requests, request[r].phase \in {"tools", "compose"}
    PROVE  /\ ask[r].kind = "run" /\ request[r].sequence \in Nat
           /\ pending[r].run.org = ask[r].org
           /\ InARow(r, pending[r].steps, request[r].sequence)
           /\ \A s \in pending[r].steps : s.node # "compose"
           /\ pending[r].checkpoints = {} /\ pending[r].run.citations = {}
           /\ IsFiniteSet(request[r].hits) /\ Cardinality(request[r].hits) <= RUN_LIMIT
           /\ request[r].hits # {} => \E s \in pending[r].steps : s.node = "retrieve"
<1>1. Reached(r, request[r]) /\ Told(r, request[r], pending[r]) /\ request[r] \in RequestState
  BY FactsOf
<1>2. ask[r].kind = "run" /\ request[r].sequence \in Nat
  BY <1>1 DEF Reached, RequestState
<1> QED BY <1>1, <1>2 DEF Told, Reading

LEMMA RecordIsNext ==
    ASSUME LibraryInv, NEW r \in Requests, NEW node \in {"retrieve", "tool", "compose"},
           NEW s, s = Record(r, node)
    PROVE  /\ s \in Step /\ s.run = r /\ s.node = node
           /\ s.sequence = request[r].sequence + 1 /\ s.sequence \in Nat \ {0}
<1>1. request[r].sequence \in Nat
  BY FactsOf DEF RequestState
<1> QED BY <1>1 DEF Record, NextStep, Step

LEMMA RetrieveKeeps ==
    ASSUME LibraryInv, NEW r \in Requests, Retrieve(r)
    PROVE  LibraryInv'
<1>1. /\ ask[r].kind = "run" /\ request[r].phase = "found" /\ UNCHANGED <<ask, stored>>
      /\ LimitOfAll(r) = RUN_LIMIT
  BY DEF Retrieve, LimitOfAll
<1>2. PICK hits \in Best(request[r].hits, LimitOfAll(r)) :
         /\ Write(r, [pending[r] EXCEPT !.steps = @ \cup {Record(r, "retrieve")}])
         /\ Continue(r, [request[r] EXCEPT !.phase = "tools", !.hits = hits,
                                           !.sequence = NextStep(r)])
  BY DEF Retrieve
<1> SUFFICES ASSUME NEW s, s = Record(r, "retrieve"),
                    NEW p, p = [pending[r] EXCEPT !.steps = @ \cup {s}], Write(r, p),
                    NEW n, n = NextStep(r),
                    NEW q, q = [request[r] EXCEPT !.phase = "tools", !.hits = hits,
                                                  !.sequence = n],
                    Continue(r, q)
             PROVE  LibraryInv'
  BY <1>2
<1>3. /\ request[r] \in RequestState /\ pending[r] \in Writes
      /\ Retrieved(r, request[r], pending[r]) /\ Told(r, request[r], pending[r])
  BY FactsOf
<1>4. /\ hits \subseteq chunks /\ hits \in SUBSET Chunk
      /\ \A c \in hits : c.org = ask[r].org
      /\ IsFiniteSet(hits) /\ Cardinality(hits) <= RUN_LIMIT
  BY <1>1, FoundIsThere
<1>5. /\ InARow(r, pending[r].steps, request[r].sequence) /\ request[r].sequence = 0
      /\ \A t \in pending[r].steps : t.node # "compose"
      /\ pending[r].checkpoints = {} /\ pending[r].run.citations = {}
      /\ pending[r].run.org = ask[r].org
  BY <1>1, <1>3 DEF Told, Reading
<1>6. s \in Step /\ s.run = r /\ s.node = "retrieve" /\ s.sequence = 0 + 1
  BY <1>5, RecordIsNext
<1>7. n = 0 + 1 /\ n \in Nat
  BY <1>5 DEF NextStep
<1>8. InARow(r, pending[r].steps \cup {s}, n)
  <2>1. InARow(r, pending[r].steps, 0)
    BY <1>5
  <2>2. InARow(r, pending[r].steps \cup {s}, 0 + 1)
    BY <1>6, <2>1, InARowGrows
  <2> QED BY <1>7, <2>2
<1>9. q \in RequestState
  BY <1>3, <1>4, <1>7 DEF RequestState
<1>10. p \in Writes
  BY <1>3, <1>6 DEF Writes
<1>11. q.phase = "tools" /\ q.hits = hits /\ q.nearest = request[r].nearest /\ q.sequence = n
  BY <1>3 DEF RequestState
<1>12. /\ p.citations = pending[r].citations /\ p.documents = pending[r].documents
       /\ p.chunks = pending[r].chunks /\ p.count = pending[r].count
       /\ p.base = pending[r].base /\ p.run = pending[r].run
       /\ p.steps = pending[r].steps \cup {s} /\ p.checkpoints = pending[r].checkpoints
  BY <1>3 DEF Writes
<1>13. Reached(r, q)
  BY <1>1, <1>11 DEF Reached, Reading
<1>14. Retrieved(r, q, p)
  BY <1>3, <1>4, <1>11, <1>12 DEF Retrieved
<1>15. Told(r, q, p)
  <2>1. InARow(r, p.steps, q.sequence) /\ \A t \in p.steps : t.node # "compose"
    BY <1>5, <1>6, <1>8, <1>11, <1>12
  <2>2. IsFiniteSet(q.hits) /\ Cardinality(q.hits) <= RUN_LIMIT
    BY <1>4, <1>11
  <2>3. s \in p.steps /\ s.node = "retrieve"
    BY <1>6, <1>12
  <2> QED BY <1>1, <1>5, <1>11, <1>12, <2>1, <2>2, <2>3 DEF Told, Reading
<1>16. Sound(r, q, p) /\ \A x \in Requests \ {r} : Apart(r, p, x, pending[x])
  BY <1>1, <1>12, <1>13, <1>14, <1>15, SoundWithoutFiles DEF Files
<1> QED BY <1>1, <1>9, <1>10, <1>16, QuietStep

LEMMA UseToolsKeeps ==
    ASSUME LibraryInv, NEW r \in Requests, UseTools(r)
    PROVE  LibraryInv'
<1> SUFFICES ASSUME NEW clock, clock = ("clock" \in agents[ask[r].agent].tools
                                        /\ ask[r].timely),
                    NEW s, s = Record(r, "tool"),
                    NEW p, p = (IF clock THEN [pending[r] EXCEPT !.steps = @ \cup {s}]
                                ELSE pending[r]),
                    NEW n, n = (IF clock THEN NextStep(r) ELSE request[r].sequence),
                    NEW q, q = [request[r] EXCEPT !.phase = "compose", !.sequence = n]
             PROVE  LibraryInv'
  OBVIOUS
<1>1. request[r].phase = "tools" /\ UNCHANGED <<ask, stored>> /\ Write(r, p) /\ Continue(r, q)
  BY DEF UseTools
<1>2. /\ request[r] \in RequestState /\ pending[r] \in Writes
      /\ Retrieved(r, request[r], pending[r])
  BY FactsOf
<1>3. /\ ask[r].kind = "run" /\ request[r].sequence \in Nat
      /\ pending[r].run.org = ask[r].org
      /\ InARow(r, pending[r].steps, request[r].sequence)
      /\ \A t \in pending[r].steps : t.node # "compose"
      /\ pending[r].checkpoints = {} /\ pending[r].run.citations = {}
      /\ IsFiniteSet(request[r].hits) /\ Cardinality(request[r].hits) <= RUN_LIMIT
      /\ request[r].hits # {} => \E t \in pending[r].steps : t.node = "retrieve"
  BY <1>1, FactsOfRun
<1>4. s \in Step /\ s.run = r /\ s.node = "tool" /\ s.sequence = request[r].sequence + 1
  BY RecordIsNext
<1>5. n \in Nat
  BY <1>3 DEF NextStep
<1>6. q \in RequestState
  BY <1>2, <1>5 DEF RequestState
<1>7. q.phase = "compose" /\ q.hits = request[r].hits /\ q.nearest = request[r].nearest
      /\ q.sequence = n
  BY <1>2 DEF RequestState
<1>8. p \in Writes
  BY <1>2, <1>4 DEF Writes
<1>9. /\ p.citations = pending[r].citations /\ p.documents = pending[r].documents
      /\ p.chunks = pending[r].chunks /\ p.count = pending[r].count
      /\ p.base = pending[r].base /\ p.run = pending[r].run
      /\ p.checkpoints = pending[r].checkpoints
      /\ p.steps = IF clock THEN pending[r].steps \cup {s} ELSE pending[r].steps
  BY <1>2 DEF Writes
<1>10. InARow(r, p.steps, n)
  <2>1. CASE clock
    <3>1. n = request[r].sequence + 1
      BY <2>1 DEF NextStep
    <3>2. InARow(r, pending[r].steps \cup {s}, request[r].sequence + 1)
      BY <1>3, <1>4, InARowGrows
    <3> QED BY <1>9, <2>1, <3>1, <3>2
  <2>2. CASE ~clock
    BY <1>3, <1>9, <2>2
  <2> QED BY <2>1, <2>2
<1>11. Reached(r, q)
  BY <1>3, <1>7 DEF Reached, Reading
<1>12. Retrieved(r, q, p)
  BY <1>2, <1>7, <1>9 DEF Retrieved
<1>13. Told(r, q, p)
  <2>1. \A t \in p.steps : t.node # "compose"
    BY <1>3, <1>4, <1>9
  <2>2. q.hits # {} => \E t \in p.steps : t.node = "retrieve"
    BY <1>3, <1>7, <1>9
  <2> QED BY <1>3, <1>7, <1>9, <1>10, <2>1, <2>2 DEF Told, Reading
<1>14. Sound(r, q, p) /\ \A x \in Requests \ {r} : Apart(r, p, x, pending[x])
  BY <1>3, <1>9, <1>11, <1>12, <1>13, SoundWithoutFiles DEF Files
<1> QED BY <1>1, <1>6, <1>8, <1>14, QuietStep

\* The end of a run: completed, with one step more, or failed at it.
LEMMA RunEnds ==
    ASSUME LibraryInv, NEW r \in Requests, request[r].phase = "compose",
           UNCHANGED <<ask, stored>>,
           NEW p \in Writes, Write(r, p), NEW q \in RequestState, Continue(r, q),
           q.phase = "ready", q.hits = request[r].hits, q.nearest = request[r].nearest,
           p.citations = pending[r].citations, p.documents = pending[r].documents,
           p.chunks = pending[r].chunks, p.count = pending[r].count,
           p.base = pending[r].base, p.run.org = pending[r].run.org,
           pending[r].steps \subseteq p.steps,
           p.run.citations = request[r].hits, Ended(r, p.run, p.steps, p.checkpoints)
    PROVE  LibraryInv'
<1>1. Retrieved(r, request[r], pending[r])
  BY FactsOf
<1>2. ask[r].kind = "run" /\ pending[r].run.org = ask[r].org
  BY FactsOfRun
<1>3. Reached(r, q)
  BY DEF Reached, Reading
<1>4. Retrieved(r, q, p)
  BY <1>1 DEF Retrieved
<1>5. Told(r, q, p)
  <2>1. /\ IsFiniteSet(request[r].hits) /\ Cardinality(request[r].hits) <= RUN_LIMIT
        /\ request[r].hits # {} => \E s \in pending[r].steps : s.node = "retrieve"
    BY FactsOfRun
  <2> QED BY <1>2, <2>1 DEF Told, Reading
<1>6. Sound(r, q, p) /\ \A x \in Requests \ {r} : Apart(r, p, x, pending[x])
  BY <1>2, <1>3, <1>4, <1>5, SoundWithoutFiles DEF Files
<1> QED BY <1>6, QuietStep

LEMMA ComposeKeeps ==
    ASSUME LibraryInv, NEW r \in Requests, Compose(r)
    PROVE  LibraryInv'
<1> SUFFICES ASSUME NEW s, s = Record(r, "compose"),
                    NEW n, n = NextStep(r),
                    NEW run, run = [pending[r].run EXCEPT !.status = "completed",
                                       !.step_count = n, !.citations = request[r].hits],
                    NEW p, p = [pending[r] EXCEPT !.steps = @ \cup {s},
                                   !.checkpoints = @ \cup {[run |-> r, step |-> n]},
                                   !.run = run],
                    NEW q, q = [request[r] EXCEPT !.phase = "ready", !.sequence = n]
             PROVE  LibraryInv'
  OBVIOUS
<1>1. /\ request[r].phase = "compose" /\ UNCHANGED <<ask, stored>>
      /\ Write(r, p) /\ Continue(r, q)
  BY DEF Compose
<1>2. request[r] \in RequestState /\ pending[r] \in Writes /\ pending[r].run \in Run
      /\ request[r].hits \in SUBSET Chunk
  BY FactsOf DEF RequestState, Writes
<1>3. /\ request[r].sequence \in Nat
      /\ InARow(r, pending[r].steps, request[r].sequence)
      /\ \A t \in pending[r].steps : t.node # "compose"
      /\ pending[r].checkpoints = {}
  BY <1>1, FactsOfRun
<1>4. s \in Step /\ s.run = r /\ s.node = "compose" /\ s.sequence = request[r].sequence + 1
  BY RecordIsNext
<1>5. n \in Nat \ {0} /\ n = request[r].sequence + 1 /\ n = s.sequence
  BY <1>3, <1>4 DEF NextStep
<1>6. q \in RequestState /\ q.phase = "ready" /\ q.hits = request[r].hits
      /\ q.nearest = request[r].nearest
  BY <1>2, <1>5 DEF RequestState
<1>7. run \in Run
  BY <1>2, <1>5 DEF Run
<1>8. run.org = pending[r].run.org /\ run.citations = request[r].hits
      /\ run.status = "completed" /\ run.step_count = n
  BY <1>2 DEF Run
<1>9. [run |-> r, step |-> n] \in Checkpoint
  BY <1>5 DEF Checkpoint
<1>10. p \in Writes
  BY <1>2, <1>4, <1>7, <1>9 DEF Writes
<1>11. /\ p.citations = pending[r].citations /\ p.documents = pending[r].documents
       /\ p.chunks = pending[r].chunks /\ p.count = pending[r].count
       /\ p.base = pending[r].base /\ p.run = run
       /\ p.steps = pending[r].steps \cup {s} /\ p.checkpoints = {[run |-> r, step |-> n]}
  BY <1>2, <1>3 DEF Writes
<1>12. InARow(r, p.steps, n)
  BY <1>3, <1>4, <1>5, <1>11, InARowGrows
<1>13. \A t \in p.steps : t.node = "compose" <=> t.sequence = n
  BY <1>3, <1>4, <1>5, <1>11 DEF InARow
<1>14. p.run.status = "completed" /\ p.run.step_count = n
  BY <1>8, <1>11
<1>15. Ended(r, p.run, p.steps, p.checkpoints)
  BY <1>11, <1>12, <1>13, <1>14 DEF Ended
<1>16. p.run.org = pending[r].run.org /\ p.run.citations = request[r].hits
       /\ pending[r].steps \subseteq p.steps
  BY <1>8, <1>11
<1> QED BY <1>1, <1>6, <1>10, <1>11, <1>15, <1>16, RunEnds

LEMMA ComposeFailsKeeps ==
    ASSUME LibraryInv, NEW r \in Requests, ComposeFails(r)
    PROVE  LibraryInv'
<1> SUFFICES ASSUME NEW n, n = NextStep(r),
                    NEW run, run = [pending[r].run EXCEPT !.status = "failed",
                                       !.step_count = n, !.citations = request[r].hits],
                    NEW p, p = [pending[r] EXCEPT !.run = run],
                    NEW q, q = [request[r] EXCEPT !.phase = "ready", !.sequence = n]
             PROVE  LibraryInv'
  OBVIOUS
<1>1. /\ request[r].phase = "compose" /\ UNCHANGED <<ask, stored>>
      /\ Write(r, p) /\ Continue(r, q)
  BY DEF ComposeFails
<1>2. request[r] \in RequestState /\ pending[r] \in Writes /\ pending[r].run \in Run
      /\ request[r].hits \in SUBSET Chunk
  BY FactsOf DEF RequestState, Writes
<1>3. /\ request[r].sequence \in Nat
      /\ InARow(r, pending[r].steps, request[r].sequence)
      /\ \A t \in pending[r].steps : t.node # "compose"
      /\ pending[r].checkpoints = {}
  BY <1>1, FactsOfRun
<1>4. n \in Nat /\ n - 1 = request[r].sequence
  BY <1>3 DEF NextStep
<1>5. q \in RequestState /\ q.phase = "ready" /\ q.hits = request[r].hits
      /\ q.nearest = request[r].nearest
  BY <1>2, <1>4 DEF RequestState
<1>6. run \in Run
  BY <1>2, <1>4 DEF Run
<1>7. run.org = pending[r].run.org /\ run.citations = request[r].hits
      /\ run.status = "failed" /\ run.step_count = n
  BY <1>2 DEF Run
<1>8. p \in Writes
  BY <1>2, <1>6 DEF Writes
<1>9. /\ p.citations = pending[r].citations /\ p.documents = pending[r].documents
      /\ p.chunks = pending[r].chunks /\ p.count = pending[r].count
      /\ p.base = pending[r].base /\ p.run = run
      /\ p.steps = pending[r].steps /\ p.checkpoints = {}
  BY <1>2, <1>3 DEF Writes
<1>10. /\ p.run.org = pending[r].run.org /\ p.run.citations = request[r].hits
       /\ pending[r].steps \subseteq p.steps
  BY <1>7, <1>9
<1>11. p.run.status = "failed" /\ p.run.step_count - 1 = request[r].sequence
  BY <1>4, <1>7, <1>9
<1>12. Ended(r, p.run, p.steps, p.checkpoints)
  BY <1>3, <1>9, <1>11 DEF Ended
<1> QED BY <1>1, <1>5, <1>8, <1>9, <1>10, <1>12, RunEnds

-----------------------------------------------------------------------------
(***************************************************************************)
(* Steps of those that file documents.                                     *)
(***************************************************************************)
LEMMA FactsOfFiling ==
    ASSUME LibraryInv, NEW r \in Requests,
           \/ request[r].phase \in {"check", "embed", "count"}
           \/ request[r].phase = "insert" /\ ask[r].kind \in Files
    PROVE  /\ ask[r].kind \in Files
           /\ request[r].file \in Nat \ {0} /\ request[r].file \in 1 .. Len(ask[r].files)
           /\ bases[ask[r].base].org = ask[r].org
           /\ File(r) \in Bodies /\ PiecesOf[File(r)] \in Seq(Seq(Nat))
           /\ Row(r) = RowAt(r, request[r]) /\ Row(r) \in Document
           /\ Row(r).id = <<r, request[r].file>> /\ Row(r).base = ask[r].base
           /\ Row(r).org = ask[r].org /\ Row(r).body = File(r)
           /\ Row(r).status = "embedding"
           /\ \A d \in pending[r].documents :
                 d \in Document /\ d.id[1] = r /\ d.id[2] \in Nat
<1>1. Reached(r, request[r]) /\ Filed(r, request[r], pending[r])
      /\ request[r] \in RequestState /\ pending[r] \in Writes
  BY FactsOf
<1>2. ask[r].kind \in Files /\ request[r].phase \in Filing
  BY <1>1 DEF Reached, Filing
<1>3. /\ request[r].file \in 1 .. Len(ask[r].files)
      /\ bases[ask[r].base].org = ask[r].org
  BY <1>1, <1>2 DEF Filed
<1>4. /\ ask[r].org \in Orgs /\ ask[r].base \in Requests
      /\ ask[r].files \in Seq(Bodies)
      /\ \A i \in 1 .. Len(ask[r].files) : ask[r].files[i] \in Bodies
  BY OrgsAreSome DEF LibraryInv
<1>5. request[r].file \in Nat \ {0}
  BY <1>3, <1>4
<1>6. File(r) \in Bodies /\ PiecesOf[File(r)] \in Seq(Seq(Nat))
  BY <1>3, <1>4, PiecesAreTexts DEF File
<1>7. Row(r) = RowAt(r, request[r])
  BY <1>3 DEF Row, RowAt, File
<1>8. Row(r) \in Document /\ Row(r).id = <<r, request[r].file>> /\ Row(r).base = ask[r].base
      /\ Row(r).org = ask[r].org /\ Row(r).body = File(r) /\ Row(r).status = "embedding"
  BY <1>3, <1>4, <1>5, <1>6 DEF Row, Document, DocumentId
<1>9. \A d \in pending[r].documents : d \in Document /\ d.id[1] = r /\ d.id[2] \in Nat
  BY <1>1 DEF Filed, Writes, Document, DocumentId
<1> QED BY <1>2, <1>3, <1>5, <1>6, <1>7, <1>8, <1>9

LEMMA RowsAreFinite ==
    ASSUME NEW d \in Document
    PROVE  IsFiniteSet(RowsOf(d)) /\ RowsOf(d) \in SUBSET Chunk
<1>1. PiecesOf[d.body] \in Seq(Seq(Nat)) /\ d \in Document
  BY PiecesAreTexts DEF Document
<1>2. RowsOf(d) \in SUBSET Chunk
  <2>1. \A i \in 1 .. Len(PiecesOf[d.body]) :
           i \in Nat \ {0} /\ PiecesOf[d.body][i] \in Seq(Nat)
    BY <1>1
  <2>2. d.id \in DocumentId /\ d.base \in Requests /\ d.org \in Orgs
    BY DEF Document
  <2> QED BY <2>1, <2>2 DEF RowsOf, Chunk
<1>3. IsFiniteSet(RowsOf(d))
  <2> SUFFICES ASSUME NEW n, n = Len(PiecesOf[d.body]),
                      NEW f, f = [i \in 1 .. n |->
                                    [document |-> d.id, base |-> d.base, org |-> d.org,
                                     sequence |-> i, content |-> PiecesOf[d.body][i]]]
               PROVE  IsFiniteSet(RowsOf(d))
    OBVIOUS
  <2>1. f \in [1 .. n -> RowsOf(d)] /\ \A t \in RowsOf(d) : \E i \in 1 .. n : f[i] = t
    BY DEF RowsOf
  <2>2. n \in Nat
    BY <1>1
  <2>3. IsFiniteSet(1 .. n)
    BY <2>2, FS_Interval
  <2> QED BY <2>1, <2>3, ImageIsNoLarger
<1> QED BY <1>2, <1>3

\* All that is written of the files up to one is finished.
Settled(r, file, p) ==
    /\ IsFiniteSet(p.documents) /\ IsFiniteSet(p.chunks)
    /\ \A d \in p.documents :
          /\ d.base = ask[r].base /\ d.org = ask[r].org
          /\ d.id[1] = r /\ d.id[2] \in Nat /\ d.id[2] <= file
          /\ Finished(d, p.chunks)
    /\ \A c \in p.chunks :
          /\ c.base = ask[r].base /\ c.org = ask[r].org
          /\ \E d \in p.documents : d.id = c.document

\* The next file, or the answer after the last, when all before it is settled.
LEMMA NextFileKeeps ==
    ASSUME LibraryInv, NEW r \in Requests, request[r].phase \in {"check", "count"},
           UNCHANGED <<ask, stored>>, NEW p \in Writes, Write(r, p),
           NEW taken \in SUBSET Nat, NEW rejected \in SUBSET Nat,
           NextFile(r, taken, rejected), Settled(r, request[r].file, p), CountedUp(r, p),
           \A d, e \in p.documents : d.body = e.body => d = e,
           \A d \in p.documents, e \in documents : d.base = e.base => d.body # e.body,
           p.base = pending[r].base, p.citations = pending[r].citations,
           p.run = pending[r].run, p.steps = pending[r].steps,
           p.checkpoints = pending[r].checkpoints,
           \A x \in Requests \ {r} : Apart(r, p, x, pending[x])
    PROVE  LibraryInv'
<1>1. /\ request[r] \in RequestState /\ Retrieved(r, request[r], pending[r])
      /\ Told(r, request[r], pending[r]) /\ Founding(r, pending[r])
  BY FactsOf
<1>2. /\ ask[r].kind \in Files
      /\ request[r].file \in Nat \ {0} /\ request[r].file \in 1 .. Len(ask[r].files)
      /\ bases[ask[r].base].org = ask[r].org
  BY FactsOfFiling
<1>3. ASSUME NEW q,
             \/ q.phase = "check" /\ q.file = request[r].file + 1
             \/ q.phase = "ready" /\ q.file = request[r].file,
             q.file \in 1 .. Len(ask[r].files), Continue(r, q),
             q \in RequestState, q.hits = request[r].hits, q.nearest = request[r].nearest
      PROVE  LibraryInv'
  <2>1. Reached(r, q)
    BY <1>2, <1>3 DEF Reached, Reading
  <2>2. Filed(r, q, p)
    <3>1. q.phase \in Filing /\ q.phase \notin {"embed", "count"}
      BY <1>3 DEF Filing
    <3>2. \A d \in p.documents :
             /\ d.base = ask[r].base /\ d.org = ask[r].org
             /\ d.id[1] = r /\ d.id[2] <= q.file
             /\ d.id[2] = q.file => q.phase = "ready"
             /\ Finished(d, p.chunks)
      BY <1>2, <1>3 DEF Settled
    <3>3. \A c \in p.chunks :
             /\ c.base = ask[r].base /\ c.org = ask[r].org
             /\ \E d \in p.documents : d.id = c.document
             /\ c.document[2] = q.file => q.phase = "ready"
      BY <3>2 DEF Settled
    <3>4. IsFiniteSet(p.documents) /\ IsFiniteSet(p.chunks)
      BY DEF Settled
    <3> QED BY <1>2, <1>3, <3>1, <3>2, <3>3, <3>4 DEF Filed
  <2>3. NoTwins(r, q, p)
    BY <1>3 DEF NoTwins
  <2>4. Retrieved(r, q, p)
    BY <1>1, <1>3 DEF Retrieved
  <2>5. Told(r, q, p) /\ Founding(r, p)
    BY <1>1, <1>2 DEF Told, Founding, Files
  <2>6. Sound(r, q, p)
    BY <2>1, <2>2, <2>3, <2>4, <2>5 DEF Sound
  <2> QED BY <1>3, <2>6, QuietStep
<1>4. CASE request[r].file < Len(ask[r].files)
  <2> SUFFICES ASSUME NEW q, q = [request[r] EXCEPT !.phase = "check", !.file = @ + 1,
                                         !.taken = taken, !.rejected = rejected],
                      Continue(r, q)
               PROVE  LibraryInv'
    BY <1>4 DEF NextFile
  <2>1. Len(ask[r].files) \in Nat
    BY OrgsAreSome DEF LibraryInv
  <2>2. request[r].file + 1 \in 1 .. Len(ask[r].files) /\ request[r].file + 1 \in Nat
    BY <1>2, <1>4, <2>1
  <2>3. q \in RequestState
    BY <1>1, <2>2 DEF RequestState
  <2>4. q.phase = "check" /\ q.file = request[r].file + 1 /\ q.hits = request[r].hits
        /\ q.nearest = request[r].nearest
    BY <1>1 DEF RequestState
  <2>5. q.file \in 1 .. Len(ask[r].files)
    BY <2>2, <2>4
  <2> QED BY <1>3, <2>3, <2>4, <2>5
<1>5. CASE ~(request[r].file < Len(ask[r].files))
  <2> SUFFICES ASSUME NEW q, q = [request[r] EXCEPT !.phase = "ready",
                                         !.taken = taken, !.rejected = rejected],
                      Continue(r, q)
               PROVE  LibraryInv'
    BY <1>5 DEF NextFile
  <2>1. q \in RequestState
    BY <1>1 DEF RequestState
  <2>2. q.phase = "ready" /\ q.file = request[r].file /\ q.hits = request[r].hits
        /\ q.nearest = request[r].nearest
    BY <1>1 DEF RequestState
  <2> QED BY <1>2, <1>3, <2>1, <2>2
<1> QED BY <1>4, <1>5

LEMMA CheckFileKeeps ==
    ASSUME LibraryInv, NEW r \in Requests, CheckFile(r)
    PROVE  LibraryInv'
<1>1. request[r].phase = "check" /\ UNCHANGED <<ask, stored>>
  BY DEF CheckFile
<1>2. /\ request[r] \in RequestState /\ pending[r] \in Writes
      /\ Filed(r, request[r], pending[r])
      /\ CountedUp(r, pending[r]) /\ NoTwins(r, request[r], pending[r])
      /\ Retrieved(r, request[r], pending[r]) /\ Told(r, request[r], pending[r])
      /\ Founding(r, pending[r])
  BY FactsOf
<1>3. /\ ask[r].kind \in Files
      /\ request[r].file \in Nat \ {0} /\ request[r].file \in 1 .. Len(ask[r].files)
      /\ bases[ask[r].base].org = ask[r].org
      /\ \A d \in pending[r].documents : d.id[1] = r /\ d.id[2] \in Nat
  BY <1>1, FactsOfFiling
<1>4. CASE Rollback(r, "refused")
  BY <1>1, <1>4, RollbackStep
<1>5. ASSUME NEW q, q = [request[r] EXCEPT !.phase = "insert"], Continue(r, q),
             UNCHANGED pending,
             Twins({d \in documents : Visible(r, d.org)} \cup pending[r].documents,
                   ask[r].base, File(r)) = {}
      PROVE  LibraryInv'
  <2>1. q \in RequestState
    BY <1>2, <1>5 DEF RequestState
  <2>2. q.phase = "insert" /\ q.file = request[r].file /\ q.hits = request[r].hits
        /\ q.nearest = request[r].nearest
    BY <1>2, <1>5 DEF RequestState
  <2>3. Reached(r, q)
    BY <1>3, <2>2 DEF Reached, Reading
  <2>4. Filed(r, q, pending[r])
    BY <1>1, <1>2, <1>3, <2>2 DEF Filed, Filing
  <2>5. NoTwins(r, q, pending[r])
    <3>1. \A d \in pending[r].documents : d.base = ask[r].base
      BY <1>2 DEF Filed
    <3>2. \A d \in pending[r].documents : d.body # File(r)
      BY <1>5, <3>1 DEF Twins
    <3> QED BY <1>2, <2>2, <3>2 DEF NoTwins, File
  <2>6. Retrieved(r, q, pending[r])
    BY <1>2, <2>2 DEF Retrieved
  <2>7. Told(r, q, pending[r])
    BY <1>2, <1>3 DEF Told, Files
  <2>8. Sound(r, q, pending[r])
    BY <1>2, <2>3, <2>4, <2>5, <2>6, <2>7 DEF Sound
  <2>9. UNCHANGED <<ask, stored, pending>>
    BY <1>1, <1>5
  <2> QED BY <1>1, <1>5, <2>1, <2>8, <2>9, QuietSame
<1>6. ASSUME NextFile(r, request[r].taken, request[r].rejected \cup {request[r].file}),
             UNCHANGED pending
      PROVE  LibraryInv'
  <2>1. Settled(r, request[r].file, pending[r])
    BY <1>1, <1>2, <1>3 DEF Filed, Settled
  <2>2. Write(r, pending[r])
    BY <1>6 DEF Write, LibraryInv, LibraryTypeOK
  <2>3. request[r].taken \in SUBSET Nat
        /\ request[r].rejected \cup {request[r].file} \in SUBSET Nat
    BY <1>2, <1>3 DEF RequestState
  <2>4. /\ \A d, e \in pending[r].documents : d.body = e.body => d = e
        /\ \A d \in pending[r].documents, e \in documents :
              d.base = e.base => d.body # e.body
    BY <1>2 DEF NoTwins
  <2>5. \A x \in Requests \ {r} : Apart(r, pending[r], x, pending[x])
    BY DEF LibraryInv
  <2> QED BY <1>1, <1>2, <1>6, <2>1, <2>2, <2>3, <2>4, <2>5, NextFileKeeps
<1> QED BY <1>4, <1>5, <1>6 DEF CheckFile

LEMMA InsertDocumentKeeps ==
    ASSUME LibraryInv, NEW r \in Requests, InsertDocument(r)
    PROVE  LibraryInv'
<1> SUFFICES ASSUME NEW row, row = Row(r),
                    NEW p, p = [pending[r] EXCEPT !.documents = @ \cup {row}],
                    NEW q, q = [request[r] EXCEPT !.phase = "embed"]
             PROVE  LibraryInv'
  OBVIOUS
<1>1. /\ request[r].phase = "insert" /\ ask[r].kind \in Files /\ ~Waits(r)
      /\ UNCHANGED <<ask, stored>>
      /\ \/ Rollback(r, "failed")
         \/ /\ Twins(documents, ask[r].base, File(r)) = {}
            /\ Write(r, p) /\ Continue(r, q)
  BY DEF InsertDocument, Files
<1>2. CASE Rollback(r, "failed")
  BY <1>1, <1>2, RollbackStep
<1>3. CASE Twins(documents, ask[r].base, File(r)) = {} /\ Write(r, p) /\ Continue(r, q)
  <2>1. /\ request[r] \in RequestState /\ pending[r] \in Writes
        /\ Filed(r, request[r], pending[r])
        /\ CountedUp(r, pending[r]) /\ NoTwins(r, request[r], pending[r])
        /\ Retrieved(r, request[r], pending[r]) /\ Told(r, request[r], pending[r])
        /\ Founding(r, pending[r])
    BY FactsOf
  <2>2. /\ request[r].file \in Nat \ {0} /\ request[r].file \in 1 .. Len(ask[r].files)
        /\ bases[ask[r].base].org = ask[r].org
        /\ row = RowAt(r, request[r]) /\ row \in Document
        /\ row.id = <<r, request[r].file>> /\ row.base = ask[r].base
        /\ row.org = ask[r].org /\ row.body = File(r) /\ row.status = "embedding"
        /\ \A d \in pending[r].documents : d.id[1] = r /\ d.id[2] \in Nat
    BY <1>1, FactsOfFiling
  <2>3. q \in RequestState
    BY <2>1 DEF RequestState
  <2>4. q.phase = "embed" /\ q.file = request[r].file /\ q.hits = request[r].hits
        /\ q.nearest = request[r].nearest
    BY <2>1 DEF RequestState
  <2>5. p \in Writes
    BY <2>1, <2>2 DEF Writes
  <2>6. /\ p.citations = pending[r].citations /\ p.chunks = pending[r].chunks
        /\ p.documents = pending[r].documents \cup {row} /\ p.count = pending[r].count
        /\ p.base = pending[r].base /\ p.run = pending[r].run
        /\ p.steps = pending[r].steps /\ p.checkpoints = pending[r].checkpoints
    BY <2>1 DEF Writes
  <2>7. Reached(r, q)
    BY <1>1, <2>4 DEF Reached, Reading
  <2>8. Filed(r, q, p)
    <3>1. row = RowAt(r, q) /\ q.phase \in Filing
      BY <2>2, <2>4 DEF RowAt, Filing
    <3>2. IsFiniteSet(p.documents) /\ IsFiniteSet(p.chunks)
      <4>1. IsFiniteSet(pending[r].documents) /\ IsFiniteSet(pending[r].chunks)
        BY <2>1 DEF Filed
      <4>2. IsFiniteSet(pending[r].documents \cup {row})
        BY <4>1, FS_AddElement
      <4> QED BY <2>6, <4>1, <4>2
    <3>3. ASSUME NEW d \in p.documents
          PROVE  /\ d.base = ask[r].base /\ d.org = ask[r].org
                 /\ d.id[1] = r /\ d.id[2] <= q.file
                 /\ \/ d = RowAt(r, q)
                    \/ Finished(d, p.chunks) /\ d.id[2] # q.file
      <4>1. CASE d = row
        BY <2>2, <2>4, <3>1, <4>1
      <4>2. CASE d \in pending[r].documents
        BY <1>1, <2>1, <2>4, <2>6, <4>2 DEF Filed
      <4> QED BY <2>6, <4>1, <4>2
    <3>4. \A c \in p.chunks :
             /\ c.base = ask[r].base /\ c.org = ask[r].org
             /\ \E d \in p.documents : d.id = c.document
             /\ c.document[2] # q.file
      BY <1>1, <2>1, <2>4, <2>6 DEF Filed
    <3> QED BY <1>1, <2>2, <2>4, <2>6, <3>1, <3>2, <3>3, <3>4 DEF Filed
  <2>9. CountedUp(r, p)
    <3>1. ReadyIn(p.documents) = ReadyIn(pending[r].documents)
      BY <2>2, <2>6 DEF ReadyIn
    <3> QED BY <2>1, <2>6, <3>1 DEF CountedUp
  <2>10. \A d \in pending[r].documents : d.body # row.body
    BY <1>1, <2>1, <2>2 DEF NoTwins, File
  <2>11. \A e \in documents : row.base = e.base => row.body # e.body
    BY <1>3, <2>2 DEF Twins
  <2>12. NoTwins(r, q, p)
    BY <2>1, <2>4, <2>6, <2>10, <2>11 DEF NoTwins
  <2>13. Retrieved(r, q, p)
    BY <2>1, <2>4, <2>6 DEF Retrieved
  <2>14. Told(r, q, p) /\ Founding(r, p)
    BY <1>1, <2>1, <2>6 DEF Told, Founding, Files
  <2>15. Sound(r, q, p)
    BY <2>7, <2>8, <2>9, <2>12, <2>13, <2>14 DEF Sound
  <2>16. ASSUME NEW x \in Requests \ {r} PROVE Apart(r, p, x, pending[x])
    <3>1. Apart(r, pending[r], x, pending[x])
      BY DEF LibraryInv
    <3>2. Twins(pending[x].documents, ask[r].base, File(r)) = {}
      BY <1>1 DEF Waits, WaitsFor, Files
    <3>3. \A e \in pending[x].documents : row.base = e.base => row.body # e.body
      BY <2>2, <3>2 DEF Twins
    <3> QED BY <2>6, <3>1, <3>3 DEF Apart
  <2> QED BY <1>1, <1>3, <2>3, <2>5, <2>15, <2>16, QuietStep
<1> QED BY <1>1, <1>2, <1>3

LEMMA StoreChunksKeeps ==
    ASSUME LibraryInv, NEW r \in Requests, StoreChunks(r)
    PROVE  LibraryInv'
<1> SUFFICES ASSUME NEW row, row = Row(r),
                    NEW rows, rows = RowsOf(row),
                    NEW p, p = [pending[r] EXCEPT !.chunks = @ \cup rows],
                    NEW q, q = [request[r] EXCEPT !.phase = "count"]
             PROVE  LibraryInv'
  OBVIOUS
<1>1. request[r].phase = "embed" /\ UNCHANGED <<ask, stored>>
  BY DEF StoreChunks
<1>2. /\ ask[r].kind \in Files
      /\ request[r].file \in Nat \ {0} /\ request[r].file \in 1 .. Len(ask[r].files)
      /\ bases[ask[r].base].org = ask[r].org
      /\ row = RowAt(r, request[r]) /\ row \in Document
      /\ row.id = <<r, request[r].file>> /\ row.base = ask[r].base
      /\ row.org = ask[r].org /\ row.body = File(r)
      /\ \A d \in pending[r].documents : d.id[1] = r /\ d.id[2] \in Nat
  BY <1>1, FactsOfFiling
<1>3. Write(r, p) /\ Continue(r, q)
  <2>1. rows = {[document |-> Row(r).id, base |-> Row(r).base, org |-> Row(r).org,
                 sequence |-> i, content |-> PiecesOf[File(r)][i]] :
                   i \in 1 .. Len(PiecesOf[File(r)])}
    BY <1>2 DEF RowsOf
  <2> QED BY <2>1 DEF StoreChunks
<1>4. /\ request[r] \in RequestState /\ pending[r] \in Writes
      /\ Filed(r, request[r], pending[r])
      /\ CountedUp(r, pending[r]) /\ NoTwins(r, request[r], pending[r])
      /\ Retrieved(r, request[r], pending[r]) /\ Told(r, request[r], pending[r])
      /\ Founding(r, pending[r])
  BY FactsOf
<1>5. IsFiniteSet(rows) /\ rows \in SUBSET Chunk
  BY <1>2, RowsAreFinite
<1>6. \A c \in rows : c.document = row.id /\ c.base = row.base /\ c.org = row.org
  BY DEF RowsOf
<1>7. q \in RequestState
  BY <1>4 DEF RequestState
<1>8. q.phase = "count" /\ q.file = request[r].file /\ q.hits = request[r].hits
      /\ q.nearest = request[r].nearest
  BY <1>4 DEF RequestState
<1>9. p \in Writes
  BY <1>4, <1>5 DEF Writes
<1>10. /\ p.citations = pending[r].citations /\ p.documents = pending[r].documents
       /\ p.chunks = pending[r].chunks \cup rows /\ p.count = pending[r].count
       /\ p.base = pending[r].base /\ p.run = pending[r].run
       /\ p.steps = pending[r].steps /\ p.checkpoints = pending[r].checkpoints
  BY <1>4 DEF Writes
<1>11. Reached(r, q)
  BY <1>2, <1>8 DEF Reached, Reading
<1>12. Filed(r, q, p)
  <2>1. row = RowAt(r, q) /\ q.phase \in Filing /\ row \in p.documents
    BY <1>1, <1>2, <1>4, <1>8, <1>10 DEF RowAt, Filing, Filed
  <2>2. IsFiniteSet(p.documents) /\ IsFiniteSet(p.chunks)
    <3>1. IsFiniteSet(pending[r].documents) /\ IsFiniteSet(pending[r].chunks)
      BY <1>4 DEF Filed
    <3>2. IsFiniteSet(pending[r].chunks \cup rows)
      BY <1>5, <3>1, FS_Union
    <3> QED BY <1>10, <3>1, <3>2
  <2>3. \A c \in pending[r].chunks : c.document # row.id
    <3>1. \A c \in pending[r].chunks : c.document[2] # request[r].file
      BY <1>1, <1>4 DEF Filed
    <3> QED BY <1>2, <3>1
  <2>4. ASSUME NEW d \in p.documents
        PROVE  /\ d.base = ask[r].base /\ d.org = ask[r].org
               /\ d.id[1] = r /\ d.id[2] <= q.file
               /\ \/ d = RowAt(r, q)
                  \/ Finished(d, p.chunks) /\ d.id[2] # q.file
    <3>1. d \in pending[r].documents
      BY <1>10
    <3>2. /\ d.base = ask[r].base /\ d.org = ask[r].org
          /\ d.id[1] = r /\ d.id[2] <= q.file
          /\ \/ d = row
             \/ Finished(d, pending[r].chunks) /\ d.id[2] # q.file
      BY <1>1, <1>2, <1>4, <1>8, <3>1 DEF Filed
    <3>3. ASSUME d.id[2] # q.file
          PROVE  ChunksIn(p.chunks, d.id) = ChunksIn(pending[r].chunks, d.id)
      <4>1. d.id # row.id
        BY <1>2, <1>8, <3>3
      <4> QED BY <1>6, <1>10, <4>1 DEF ChunksIn
    <3> QED BY <2>1, <3>2, <3>3 DEF Finished
  <2>5. ASSUME NEW c \in p.chunks
        PROVE  /\ c.base = ask[r].base /\ c.org = ask[r].org
               /\ \E d \in p.documents : d.id = c.document
    <3>1. CASE c \in rows
      BY <1>2, <1>6, <2>1, <3>1
    <3>2. CASE c \in pending[r].chunks
      BY <1>4, <1>10, <3>2 DEF Filed
    <3> QED BY <1>10, <3>1, <3>2
  <2>6. ChunksIn(p.chunks, <<r, q.file>>) = RowsOf(RowAt(r, q))
    BY <1>2, <1>6, <1>8, <1>10, <2>1, <2>3 DEF ChunksIn
  <2> QED BY <1>2, <1>8, <2>1, <2>2, <2>4, <2>5, <2>6 DEF Filed
<1>13. CountedUp(r, p)
  BY <1>4, <1>10 DEF CountedUp
<1>14. NoTwins(r, q, p)
  BY <1>4, <1>8, <1>10 DEF NoTwins
<1>15. Retrieved(r, q, p)
  BY <1>4, <1>8, <1>10 DEF Retrieved
<1>16. Told(r, q, p) /\ Founding(r, p)
  BY <1>2, <1>4, <1>10 DEF Told, Founding, Files
<1>17. Sound(r, q, p)
  BY <1>11, <1>12, <1>13, <1>14, <1>15, <1>16 DEF Sound
<1>18. \A x \in Requests \ {r} : Apart(r, p, x, pending[x])
  BY <1>10 DEF Apart, LibraryInv
<1> QED BY <1>1, <1>3, <1>7, <1>9, <1>17, <1>18, QuietStep

LEMMA CountDocumentKeeps ==
    ASSUME LibraryInv, NEW r \in Requests, CountDocument(r)
    PROVE  LibraryInv'
<1>0. SUFFICES ASSUME NEW row, row = Row(r),
                    NEW ready, ready = [row EXCEPT !.status = "ready",
                                           !.chunk_count = Len(PiecesOf[File(r)])],
                    NEW before, before = (IF pending[r].count > 0 THEN pending[r].count
                                          ELSE bases[ask[r].base].document_count),
                    NEW p, p = [pending[r] EXCEPT !.documents = (@ \ {row}) \cup {ready},
                                                  !.count = before + 1]
             PROVE  LibraryInv'
  OBVIOUS
<1> SUFFICES ASSUME NEW old, old = pending[r].documents
             PROVE  LibraryInv'
  OBVIOUS
<1>1. /\ request[r].phase = "count" /\ ~Waits(r) /\ UNCHANGED <<ask, stored>>
      /\ Write(r, p)
      /\ NextFile(r, request[r].taken \cup {request[r].file}, request[r].rejected)
  BY <1>0 DEF CountDocument
<1>2. /\ request[r] \in RequestState /\ pending[r] \in Writes
      /\ Filed(r, request[r], pending[r])
      /\ CountedUp(r, pending[r]) /\ NoTwins(r, request[r], pending[r])
  BY FactsOf
<1>3. /\ ask[r].kind \in Files
      /\ request[r].file \in Nat \ {0} /\ request[r].file \in 1 .. Len(ask[r].files)
      /\ File(r) \in Bodies /\ PiecesOf[File(r)] \in Seq(Seq(Nat))
      /\ row = RowAt(r, request[r]) /\ row \in Document
      /\ row.id = <<r, request[r].file>> /\ row.base = ask[r].base
      /\ row.org = ask[r].org /\ row.body = File(r) /\ row.status = "embedding"
      /\ \A d \in old : d.id[1] = r /\ d.id[2] \in Nat
  BY <1>0, <1>1, FactsOfFiling
<1>4. /\ row \in old /\ ChunksIn(pending[r].chunks, row.id) = RowsOf(row)
      /\ \A d \in old \ {row} : Finished(d, pending[r].chunks) /\ d.id[2] # request[r].file
      /\ IsFiniteSet(old)
  BY <1>1, <1>2, <1>3 DEF Filed
<1>5. Len(PiecesOf[File(r)]) \in Nat
  BY <1>3
<1>6. ready \in Document
  BY <1>0, <1>3, <1>5 DEF Document
<1>7. /\ ready.id = row.id /\ ready.base = row.base /\ ready.org = row.org
      /\ ready.body = row.body /\ ready.status = "ready"
      /\ ready.chunk_count = Len(PiecesOf[row.body])
  BY <1>0, <1>3 DEF Document
<1>8. ready \notin old
  <2>1. ready # row
    BY <1>3, <1>7
  <2>2. ready.id[2] = request[r].file
    BY <1>3, <1>7
  <2> QED BY <1>4, <2>1, <2>2
<1>9. before \in Nat
  <2>1. bases[ask[r].base] \in Base /\ pending[r].count \in Nat
    BY <1>2, OrgsAreSome DEF LibraryInv, LibraryTypeOK, KnowledgeTables, Writes
  <2> QED BY <1>0, <2>1 DEF Base
<1>10. p \in Writes
  <2>1. (pending[r].documents \ {row}) \cup {ready} \in SUBSET Document /\ before + 1 \in Nat
    BY <1>2, <1>6, <1>9 DEF Writes
  <2> QED BY <1>0, <1>2, <2>1 DEF Writes
<1>11. /\ p.citations = pending[r].citations /\ p.chunks = pending[r].chunks
       /\ p.documents = (old \ {row}) \cup {ready} /\ p.count = before + 1
       /\ p.base = pending[r].base /\ p.run = pending[r].run
       /\ p.steps = pending[r].steps /\ p.checkpoints = pending[r].checkpoints
  BY <1>0, <1>2 DEF Writes
<1>12. Settled(r, request[r].file, p)
  <2>1. IsFiniteSet(p.documents) /\ IsFiniteSet(p.chunks)
    <3>1. IsFiniteSet(old \ {row})
      BY <1>4, FS_RemoveElement
    <3>2. IsFiniteSet((old \ {row}) \cup {ready})
      BY <3>1, FS_AddElement
    <3> QED BY <1>2, <1>11, <3>2 DEF Filed
  <2>2. Finished(ready, p.chunks)
    <3>1. RowsOf(ready) = RowsOf(row)
      BY <1>7 DEF RowsOf
    <3> QED BY <1>4, <1>7, <1>11, <3>1 DEF Finished
  <2>3. ASSUME NEW d \in p.documents
        PROVE  /\ d.base = ask[r].base /\ d.org = ask[r].org
               /\ d.id[1] = r /\ d.id[2] \in Nat /\ d.id[2] <= request[r].file
               /\ Finished(d, p.chunks)
    <3>1. CASE d = ready
      BY <1>3, <1>7, <2>2, <3>1
    <3>2. CASE d \in old \ {row}
      BY <1>2, <1>3, <1>4, <1>11, <3>2 DEF Filed
    <3> QED BY <1>11, <3>1, <3>2
  <2>4. ASSUME NEW c \in p.chunks
        PROVE  /\ c.base = ask[r].base /\ c.org = ask[r].org
               /\ \E d \in p.documents : d.id = c.document
    <3>1. c \in pending[r].chunks
      BY <1>11
    <3>2. /\ c.base = ask[r].base /\ c.org = ask[r].org
          /\ \E d \in old : d.id = c.document
      BY <1>2, <3>1 DEF Filed
    <3>3. PICK d \in old : d.id = c.document
      BY <3>2
    <3>4. \E e \in p.documents : e.id = c.document
      <4>1. CASE d = row
        BY <1>7, <1>11, <3>3, <4>1
      <4>2. CASE d # row
        BY <1>11, <3>3, <4>2
      <4> QED BY <4>1, <4>2
    <3> QED BY <3>2, <3>4
  <2> QED BY <2>1, <2>3, <2>4 DEF Settled
<1>13. CountedUp(r, p)
  <2>1. ReadyIn(p.documents) = ReadyIn(old) \cup {ready}
    BY <1>3, <1>7, <1>11 DEF ReadyIn
  <2>2. ready \notin ReadyIn(old) /\ ReadyIn(old) \in SUBSET old
    BY <1>8 DEF ReadyIn
  <2>3. IsFiniteSet(ReadyIn(old)) /\ Cardinality(ReadyIn(old)) \in Nat
    BY <1>4, <2>2, FS_Subset, FS_CardinalityType
  <2>4. Cardinality(ReadyIn(p.documents)) = Cardinality(ReadyIn(old)) + 1
    BY <2>1, <2>2, <2>3, FS_AddElement
  <2>5. before = bases[ask[r].base].document_count + Cardinality(ReadyIn(old))
    <3>1. CASE pending[r].count > 0
      BY <1>0, <1>2, <3>1 DEF CountedUp
    <3>2. CASE ~(pending[r].count > 0)
      <4>1. pending[r].count = 0
        BY <1>2, <3>2 DEF Writes
      <4>2. ReadyIn(old) = {}
        BY <1>2, <4>1 DEF CountedUp
      <4>3. Cardinality(ReadyIn(old)) = 0
        BY <4>2, FS_EmptySet
      <4>4. bases[ask[r].base].document_count = before
        BY <1>0, <3>2
      <4> QED BY <1>9, <4>3, <4>4
    <3> QED BY <3>1, <3>2
  <2>6. bases[ask[r].base].document_count \in Nat
    <3>1. bases[ask[r].base] \in Base
      BY OrgsAreSome DEF LibraryInv, LibraryTypeOK, KnowledgeTables
    <3> QED BY <3>1 DEF Base
  <2>7. p.count = bases[ask[r].base].document_count + Cardinality(ReadyIn(p.documents))
    BY <1>11, <2>3, <2>4, <2>5, <2>6
  <2>8. p.count # 0 /\ ReadyIn(p.documents) # {}
    BY <1>9, <1>11, <2>1
  <2> QED BY <2>7, <2>8 DEF CountedUp
<1>14. \A d, e \in p.documents : d.body = e.body => d = e
  <2>1. \A d \in old \ {row} : d.body # row.body
    BY <1>2, <1>4 DEF NoTwins
  <2>2. \A d, e \in old : d.body = e.body => d = e
    BY <1>2 DEF NoTwins
  <2> QED BY <1>7, <1>11, <2>1, <2>2
<1>15. \A d \in p.documents, e \in documents : d.base = e.base => d.body # e.body
  BY <1>2, <1>4, <1>7, <1>11 DEF NoTwins
<1>16. ASSUME NEW x \in Requests \ {r} PROVE Apart(r, p, x, pending[x])
  <2>1. Apart(r, pending[r], x, pending[x])
    BY DEF LibraryInv
  <2>2. ~(ask[x].base = ask[r].base /\ pending[x].count > 0)
    BY <1>1 DEF Waits, WaitsFor
  <2>3. \A d \in p.documents, e \in pending[x].documents :
           d.base = e.base => d.body # e.body
    BY <1>4, <1>7, <1>11, <2>1 DEF Apart
  <2> QED BY <2>2, <2>3 DEF Apart
<1>17. request[r].taken \cup {request[r].file} \in SUBSET Nat
       /\ request[r].rejected \in SUBSET Nat
  BY <1>2, <1>3 DEF RequestState
<1>18. request[r].phase \in {"check", "count"}
  BY <1>1
<1> QED BY <1>1, <1>10, <1>11, <1>12, <1>13, <1>14, <1>15, <1>16, <1>17, <1>18, NextFileKeeps

\* A request that is stopped, by a failure or to break a circle of waiting.
LEMMA StopKeeps ==
    ASSUME LibraryInv, NEW r \in Requests, Abort(r) \/ BreakDeadlock(r)
    PROVE  LibraryInv'
<1>1. Rollback(r, "failed") /\ UNCHANGED <<ask, stored>>
  BY DEF Abort, BreakDeadlock
<1>2. request[r].phase # "done"
  <2>1. CASE Abort(r)
    BY <2>1 DEF Abort, UnderWay
  <2>2. CASE BreakDeadlock(r)
    <3>1. Waits(r)
      BY <2>2 DEF BreakDeadlock
    <3> QED BY <3>1 DEF Waits, WaitsFor
  <2> QED BY <2>1, <2>2
<1> QED BY <1>1, <1>2, RollbackStep

-----------------------------------------------------------------------------
(***************************************************************************)
(* The commit: what was pending is stored, all of it at once.              *)
(***************************************************************************)

\* What is pending at the commit: documents that are finished and counted.
LEMMA PendingAtCommit ==
    ASSUME LibraryInv, NEW r \in Requests, request[r].phase = "ready",
           NEW p, p = pending[r]
    PROVE  /\ IsFiniteSet(p.documents) /\ IsFiniteSet(p.chunks)
           /\ p.documents # {} => ask[r].kind \in Files /\ bases[ask[r].base].org = ask[r].org
           /\ \A d \in p.documents :
                 /\ d.base = ask[r].base /\ d.org = ask[r].org /\ d.id[1] = r
                 /\ Finished(d, p.chunks)
           /\ \A c \in p.chunks :
                 /\ c.base = ask[r].base /\ c.org = ask[r].org /\ c.document[1] = r
                 /\ \E d \in p.documents : d.id = c.document
           /\ p.count > 0 <=> p.documents # {}
           /\ p.count > 0 =>
                 p.count = bases[ask[r].base].document_count + Cardinality(p.documents)
           /\ p.base # NoBase => /\ p.documents = {} /\ p.count = 0
                                 /\ p.base.org = ask[r].org /\ p.base.document_count = 0
<1>1. /\ Filed(r, request[r], p) /\ CountedUp(r, p) /\ Founding(r, p) /\ p \in Writes
  BY FactsOf
<1>2. p.documents # {} => /\ ask[r].kind \in Files /\ request[r].phase \in Filing
                          /\ bases[ask[r].base].org = ask[r].org
  BY <1>1 DEF Filed
<1>3. \A d \in p.documents :
         /\ d.base = ask[r].base /\ d.org = ask[r].org /\ d.id[1] = r
         /\ Finished(d, p.chunks)
  BY <1>1 DEF Filed
<1>4. \A c \in p.chunks :
         /\ c.base = ask[r].base /\ c.org = ask[r].org /\ c.document[1] = r
         /\ \E d \in p.documents : d.id = c.document
  BY <1>1, <1>3 DEF Filed
<1>5. ReadyIn(p.documents) = p.documents
  BY <1>3 DEF ReadyIn, Finished
<1>6. p.count \in Nat
  BY <1>1 DEF Writes
<1>7. p.count > 0 <=> p.documents # {}
  BY <1>1, <1>5, <1>6 DEF CountedUp
<1>8. p.count > 0 =>
         p.count = bases[ask[r].base].document_count + Cardinality(p.documents)
  BY <1>1, <1>5 DEF CountedUp
<1>9. p.base # NoBase => /\ p.documents = {} /\ p.count = 0
                         /\ p.base.org = ask[r].org /\ p.base.document_count = 0
  <2>1. p.base # NoBase => ask[r].kind = "create_base" /\ p.base.org = ask[r].org
                           /\ p.base.document_count = 0
    BY <1>1 DEF Founding
  <2>2. p.base # NoBase => p.documents = {}
    BY <1>2, <2>1 DEF Files
  <2> QED BY <1>6, <1>7, <2>1, <2>2
<1>10. IsFiniteSet(p.documents) /\ IsFiniteSet(p.chunks)
  BY <1>1 DEF Filed
<1> QED BY <1>2, <1>3, <1>4, <1>7, <1>8, <1>9, <1>10

LEMMA AtCommit ==
    ASSUME LibraryInv, NEW r \in Requests, Commit(r), NEW p, p = pending[r]
    PROVE  /\ request[r].phase = "ready" /\ ask' = ask /\ Unborn(r)
           /\ \A x \in Requests \ {r} : request'[x] = request[x] /\ pending'[x] = pending[x]
           /\ request'[r] = [Blank EXCEPT !.phase = "done"] /\ pending'[r] = Nothing
           /\ documents' = documents \cup p.documents
           /\ chunks' = chunks \cup p.chunks
           /\ citations' = citations \cup p.citations
           /\ \A b \in Requests :
                 bases'[b] = IF b = r /\ p.base # NoBase THEN p.base
                             ELSE IF b = ask[r].base /\ p.count > 0
                             THEN [bases[b] EXCEPT !.document_count = p.count]
                             ELSE bases[b]
           /\ \A x \in Requests :
                 runs'[x] = IF x = r /\ p.run # NoRun THEN p.run ELSE runs[x]
           /\ steps' = steps \cup p.steps
           /\ checkpoints' = checkpoints \cup p.checkpoints
<1>1. /\ request \in [Requests -> RequestState] /\ pending \in [Requests -> Writes]
      /\ runs \in [Requests -> Run]
  BY DEF LibraryInv, LibraryTypeOK, RunTables
<1>2. request[r].phase = "ready" /\ ask' = ask
  BY DEF Commit
<1>3. Unborn(r)
  BY <1>2 DEF LibraryInv
<1>4. /\ \A x \in Requests \ {r} : request'[x] = request[x] /\ pending'[x] = pending[x]
      /\ request'[r] = [Blank EXCEPT !.phase = "done"] /\ pending'[r] = Nothing
  BY <1>1 DEF Commit, Rollback, Continue, Write
<1>5. \A b \in Requests :
         bases'[b] = IF b = r /\ p.base # NoBase THEN p.base
                     ELSE IF b = ask[r].base /\ p.count > 0
                     THEN [bases[b] EXCEPT !.document_count = p.count]
                     ELSE bases[b]
  BY DEF Commit
<1>6. \A x \in Requests : runs'[x] = IF x = r /\ p.run # NoRun THEN p.run ELSE runs[x]
  BY <1>1 DEF Commit
<1>7. /\ documents' = documents \cup p.documents
      /\ chunks' = chunks \cup p.chunks
      /\ citations' = citations \cup p.citations
      /\ steps' = steps \cup p.steps
      /\ checkpoints' = checkpoints \cup p.checkpoints
  BY DEF Commit
<1> QED BY <1>2, <1>3, <1>4, <1>5, <1>6, <1>7

\* The bases keep their organizations; one of them may have a new count.
LEMMA BasesAtCommit ==
    ASSUME LibraryInv, NEW r \in Requests, Commit(r), NEW p, p = pending[r]
    PROVE  /\ Added
           /\ \A b \in Requests :
                 bases'[b].document_count = IF b = ask[r].base /\ p.count > 0 THEN p.count
                                            ELSE bases[b].document_count
           /\ \A b \in Requests : bases[b].org # None => bases'[b].org = bases[b].org
<1>1. /\ request[r].phase = "ready" /\ bases[r] = NoBase
      /\ documents \subseteq documents' /\ chunks \subseteq chunks'
  BY AtCommit DEF Unborn
<1>2. \A b \in Requests :
         bases'[b] = IF b = r /\ p.base # NoBase THEN p.base
                     ELSE IF b = ask[r].base /\ p.count > 0
                     THEN [bases[b] EXCEPT !.document_count = p.count]
                     ELSE bases[b]
  BY AtCommit
<1>3. p.base # NoBase => p.count = 0 /\ p.base.document_count = 0
  BY <1>1, PendingAtCommit
<1>4. p.count = 0 \/ p.count > 0
  BY FactsOf DEF Writes
<1>5. ASSUME NEW b \in Requests
      PROVE  /\ bases'[b].document_count = IF b = ask[r].base /\ p.count > 0 THEN p.count
                                           ELSE bases[b].document_count
             /\ bases[b].org # None => bases'[b].org = bases[b].org
  <2>1. bases[b] \in Base
    BY DEF LibraryInv, LibraryTypeOK, KnowledgeTables
  <2>2. CASE b = r /\ p.base # NoBase
    <3>1. bases'[b] = p.base
      BY <1>2, <2>2
    <3> QED BY <1>1, <1>3, <2>2, <3>1 DEF NoBase
  <2>3. CASE ~(b = r /\ p.base # NoBase) /\ b = ask[r].base /\ p.count > 0
    <3>1. bases'[b] = [bases[b] EXCEPT !.document_count = p.count]
      BY <1>2, <2>3
    <3> QED BY <2>1, <2>3, <3>1 DEF Base
  <2>4. CASE ~(b = r /\ p.base # NoBase) /\ ~(b = ask[r].base /\ p.count > 0)
    <3>1. bases'[b] = bases[b]
      BY <1>2, <2>4
    <3> QED BY <2>4, <3>1
  <2> QED BY <2>2, <2>3, <2>4
<1> QED BY <1>1, <1>5 DEF Added

LEMMA CommitTypes ==
    ASSUME LibraryInv, NEW r \in Requests, Commit(r)
    PROVE  LibraryTypeOK'
<1> SUFFICES ASSUME NEW p, p = pending[r]
             PROVE  LibraryTypeOK'
  OBVIOUS
<1>1. /\ request[r].phase = "ready" /\ p \in Writes /\ p.count \in Nat
      /\ LibraryTypeOK
  BY FactsOf DEF Commit, Writes
<1>2. KnowledgeTables'
  <2>1. ASSUME NEW b \in Requests
        PROVE  (IF b = r /\ p.base # NoBase THEN p.base
                ELSE IF b = ask[r].base /\ p.count > 0
                THEN [bases[b] EXCEPT !.document_count = p.count]
                ELSE bases[b]) \in Base
    <3>1. p.base \in Base /\ bases[b] \in Base
      BY <1>1 DEF LibraryTypeOK, KnowledgeTables, Writes
    <3>2. [bases[b] EXCEPT !.document_count = p.count] \in Base
      BY <1>1, <3>1 DEF Base
    <3> QED BY <3>1, <3>2
  <2>2. bases' \in [Requests -> Base]
    BY <2>1 DEF Commit
  <2>3. documents' \in SUBSET Document /\ chunks' \in SUBSET Chunk
    BY <1>1 DEF Commit, LibraryTypeOK, KnowledgeTables, Writes
  <2> QED BY <2>2, <2>3 DEF KnowledgeTables
<1>3. CitationTable'
  BY <1>1 DEF Commit, LibraryTypeOK, CitationTable, Writes
<1>4. AgentTables'
  <2>1. ASSUME NEW a \in Requests
        PROVE  (IF a = r /\ p.agent # NoAgent THEN p.agent
                ELSE IF a = ask[r].agent /\ p.publishes
                THEN [agents[a] EXCEPT !.status = "published"]
                ELSE agents[a]) \in Agent
    <3>1. p.agent \in Agent /\ agents[a] \in Agent
      BY <1>1 DEF LibraryTypeOK, AgentTables, Writes
    <3>2. [agents[a] EXCEPT !.status = "published"] \in Agent
      BY <3>1 DEF Agent
    <3> QED BY <3>1, <3>2
  <2> QED BY <2>1 DEF Commit, AgentTables
<1>5. RunTables'
  <2>1. runs' \in [Requests -> Run]
    BY <1>1 DEF Commit, LibraryTypeOK, RunTables, Writes
  <2>2. steps' \in SUBSET Step /\ checkpoints' \in SUBSET Checkpoint
    BY <1>1 DEF Commit, LibraryTypeOK, RunTables, Writes
  <2> QED BY <2>1, <2>2 DEF RunTables
<1>6. request' \in [Requests -> RequestState] /\ pending' \in [Requests -> Writes]
  <2> SUFFICES ASSUME NEW q, q = [Blank EXCEPT !.phase = "done"]
               PROVE  request' \in [Requests -> RequestState]
                      /\ pending' \in [Requests -> Writes]
    OBVIOUS
  <2>1. q \in RequestState
    <3>1. Begins(q, "done")
      BY DEF Begins
    <3> QED BY <3>1, BlankStates
  <2>2. Continue(r, q) /\ Write(r, Nothing)
    BY DEF Commit, Rollback
  <2> QED BY <1>1, <2>1, <2>2, NothingIsWritten DEF Continue, Write, LibraryTypeOK
<1>7. ask' \in [Requests -> Ask]
  BY <1>1 DEF Commit, LibraryTypeOK
<1> QED BY <1>2, <1>3, <1>4, <1>5, <1>6, <1>7 DEF LibraryTypeOK

\* What all requests have written is sound after the commit of one.
LEMMA CommitSound ==
    ASSUME LibraryInv, NEW r \in Requests, Commit(r), NEW x \in Requests
    PROVE  Sound(x, request[x], pending[x])'
<1> SUFFICES ASSUME NEW p, p = pending[r]
             PROVE  Sound(x, request[x], pending[x])'
  OBVIOUS
<1>1. ask' = ask /\ Added /\ LibraryTypeOK /\ documents' = documents \cup p.documents
  BY AtCommit, BasesAtCommit DEF LibraryInv
<1>2. CASE x = r
  <2> SUFFICES ASSUME NEW q, q = [Blank EXCEPT !.phase = "done"], NEW o, o = Nothing
               PROVE  Sound(r, q, o)'
    BY <1>2, AtCommit
  <2>1. q.phase = "done" /\ q.hits = {} /\ q.nearest = {}
    <3>1. Begins(q, "done")
      BY DEF Begins
    <3> QED BY <3>1, BlankStates
  <2>2. Reached(r, q)
    BY <2>1 DEF Reached, Reading
  <2>3. Told(r, q, o) /\ Founding(r, o)
    BY <2>1, NothingIsWritten DEF Told, Founding, Reading
  <2>4. q.phase \notin Filing
    BY <2>1 DEF Filing
  <2>5. Sound(r, q, o)
    BY <2>1, <2>2, <2>3, <2>4, NothingIsWritten, WithoutDocuments
  <2>6. o.count = 0 /\ o.documents = {}
    BY NothingIsWritten
  <2> QED BY <1>1, <2>5, <2>6, SoundKept
<1>3. CASE x # r
  <2> SUFFICES ASSUME NEW q, q = request[x], NEW o, o = pending[x]
               PROVE  Sound(x, q, o)'
    BY <1>3, AtCommit
  <2>1. Sound(x, q, o) /\ Apart(r, p, x, o)
    BY <1>3 DEF LibraryInv
  <2>2. \A d \in o.documents, e \in documents' \ documents :
           d.base = e.base => d.body # e.body
    BY <1>1, <2>1 DEF Apart
  <2>3. o.count > 0 => bases'[ask[x].base].document_count
                          = bases[ask[x].base].document_count
    <3>1. ask[x].base \in Requests
      BY OrgsAreSome DEF LibraryInv
    <3>2. \A b \in Requests :
             bases'[b].document_count = IF b = ask[r].base /\ p.count > 0 THEN p.count
                                        ELSE bases[b].document_count
      BY BasesAtCommit
    <3> QED BY <2>1, <3>1, <3>2 DEF Apart
  <2> QED BY <1>1, <2>1, <2>2, <2>3, SoundKept
<1> QED BY <1>2, <1>3

LEMMA CommitUnborn ==
    ASSUME LibraryInv, NEW r \in Requests, Commit(r), NEW x \in Requests,
           request'[x].phase # "done"
    PROVE  Unborn(x)'
<1> SUFFICES ASSUME NEW p, p = pending[r]
             PROVE  Unborn(x)'
  OBVIOUS
<1>1. x # r
  <2> SUFFICES ASSUME NEW q, q = [Blank EXCEPT !.phase = "done"]
               PROVE  x # r
    OBVIOUS
  <2>1. q.phase = "done"
    BY DEF Blank
  <2> QED BY <2>1, AtCommit
<1>2. request[r].phase = "ready" /\ request'[x] = request[x]
  BY <1>1, AtCommit
<1>3. Unborn(x)
  BY <1>2 DEF LibraryInv
<1>4. bases'[x] = NoBase
  <2>1. ~(x = ask[r].base /\ p.count > 0)
    <3>1. p.count > 0 => bases[ask[r].base].org = ask[r].org
      BY <1>2, PendingAtCommit
    <3>2. ask[r].org # None
      BY OrgsAreSome DEF LibraryInv
    <3> QED BY <1>3, <3>1, <3>2 DEF Unborn, NoBase
  <2>2. bases'[x] = IF x = r /\ p.base # NoBase THEN p.base
                    ELSE IF x = ask[r].base /\ p.count > 0
                    THEN [bases[x] EXCEPT !.document_count = p.count]
                    ELSE bases[x]
    BY AtCommit
  <2> QED BY <1>1, <1>3, <2>1, <2>2 DEF Unborn
<1>5. runs'[x] = NoRun
  BY <1>1, <1>3, AtCommit DEF Unborn
<1>6. /\ \A d \in documents' : d.id[1] # x
      /\ \A c \in chunks' : c.document[1] # x
  <2>1. /\ \A d \in p.documents : d.id[1] = r
        /\ \A c \in p.chunks : c.document[1] = r
    BY <1>2, PendingAtCommit
  <2>2. documents' = documents \cup p.documents /\ chunks' = chunks \cup p.chunks
    BY AtCommit
  <2> QED BY <1>1, <1>3, <2>1, <2>2 DEF Unborn
<1>7. \A c \in citations' : c.message # x
  <2>1. \A c \in p.citations : c.message = r
    BY FactsOf DEF Retrieved
  <2>2. citations' = citations \cup p.citations
    BY AtCommit
  <2> QED BY <1>1, <1>3, <2>1, <2>2 DEF Unborn
<1> QED BY <1>4, <1>5, <1>6, <1>7 DEF Unborn

LEMMA CommitApart ==
    ASSUME LibraryInv, NEW r \in Requests, Commit(r), NEW y \in Requests,
           NEW x \in Requests, y # x
    PROVE  Apart(y, pending[y], x, pending[x])'
<1>1. ask' = ask /\ pending'[r] = Nothing
      /\ \A z \in Requests \ {r} : pending'[z] = pending[z]
  BY AtCommit
<1>2. Apart(y, pending'[y], x, pending'[x])
  <2>1. CASE y = r \/ x = r
    BY <1>1, <2>1, NothingIsWritten DEF Apart
  <2>2. CASE y # r /\ x # r
    BY <1>1, <2>2 DEF LibraryInv
  <2> QED BY <2>1, <2>2
<1> QED BY <1>1, <1>2 DEF Apart

LEMMA CommitStocked ==
    ASSUME LibraryInv, NEW r \in Requests, Commit(r)
    PROVE  Stocked'
<1> SUFFICES ASSUME NEW p, p = pending[r]
             PROVE  Stocked'
  OBVIOUS
<1>1. /\ request[r].phase = "ready"
      /\ documents' = documents \cup p.documents /\ chunks' = chunks \cup p.chunks
  BY AtCommit
<1>2. \A b \in Requests : bases[b].org # None => bases'[b].org = bases[b].org
  BY BasesAtCommit
<1>3. IsFiniteSet(documents') /\ IsFiniteSet(chunks')
  <2>1. /\ IsFiniteSet(documents) /\ IsFiniteSet(chunks)
        /\ IsFiniteSet(p.documents) /\ IsFiniteSet(p.chunks)
    BY <1>1, PendingAtCommit DEF LibraryInv, Stocked
  <2>2. IsFiniteSet(documents \cup p.documents)
    BY <2>1, FS_Union
  <2>3. IsFiniteSet(chunks \cup p.chunks)
    BY <2>1, FS_Union
  <2> QED BY <1>1, <2>2, <2>3
<1>4. ASSUME NEW c \in chunks
      PROVE  /\ bases'[c.base].org = c.org
             /\ \E d \in documents' : d.id = c.document /\ d.base = c.base
  <2>1. /\ bases[c.base].org = c.org
        /\ \E d \in documents : d.id = c.document /\ d.base = c.base
    BY DEF LibraryInv, Stocked
  <2>2. c.base \in Requests /\ c.org # None
    <3>1. c \in Chunk
      BY DEF LibraryInv, LibraryTypeOK, KnowledgeTables
    <3> QED BY <3>1, LibraryAssumption DEF Chunk
  <2> QED BY <1>1, <1>2, <2>1, <2>2
<1>5. ASSUME NEW c \in p.chunks
      PROVE  /\ bases'[c.base].org = c.org
             /\ \E d \in documents' : d.id = c.document /\ d.base = c.base
  <2>1. /\ c.base = ask[r].base /\ c.org = ask[r].org
        /\ \E d \in p.documents : d.id = c.document
    BY <1>1, PendingAtCommit
  <2>2. \A d \in p.documents : d.base = ask[r].base
    BY <1>1, PendingAtCommit
  <2>3. bases[ask[r].base].org = ask[r].org
    BY <1>1, <2>1, PendingAtCommit
  <2>4. ask[r].org # None /\ ask[r].base \in Requests
    BY OrgsAreSome DEF LibraryInv
  <2> QED BY <1>1, <1>2, <2>1, <2>2, <2>3, <2>4
<1> QED BY <1>1, <1>3, <1>4, <1>5 DEF Stocked

LEMMA CommitWhole ==
    ASSUME LibraryInv, NEW r \in Requests, Commit(r)
    PROVE  WholeDocuments'
<1> SUFFICES ASSUME NEW p, p = pending[r]
             PROVE  WholeDocuments'
  OBVIOUS
<1>1. /\ request[r].phase = "ready" /\ Unborn(r)
      /\ documents' = documents \cup p.documents /\ chunks' = chunks \cup p.chunks
  BY AtCommit
<1>2. /\ \A b \in Requests : bases[b].org # None => bases'[b].org = bases[b].org
      /\ \A b \in Requests :
            bases'[b].document_count = IF b = ask[r].base /\ p.count > 0 THEN p.count
                                       ELSE bases[b].document_count
  BY BasesAtCommit
<1>3. /\ \A d \in p.documents :
            /\ d.base = ask[r].base /\ d.org = ask[r].org /\ d.id[1] = r
            /\ Finished(d, p.chunks)
      /\ \A c \in p.chunks : c.document[1] = r
      /\ p.documents # {} => bases[ask[r].base].org = ask[r].org
  BY <1>1, PendingAtCommit
<1>4. ask[r].org # None /\ ask[r].base \in Requests
  BY OrgsAreSome DEF LibraryInv
<1>5. WholeDocuments
  BY DEF LibraryInv
<1>6. ASSUME NEW d \in documents
      PROVE  WholeDocument(d)'
  <2>1. WholeDocument(d)
    BY <1>5 DEF WholeDocuments
  <2>2. d \in Document
    BY DEF LibraryInv, LibraryTypeOK, KnowledgeTables
  <2>3. d.base \in Requests /\ d.org # None
    BY <2>2, LibraryAssumption DEF Document
  <2>4. ChunksOf(d)' = ChunksOf(d)
    <3>1. \A c \in p.chunks : c.document # d.id
      BY <1>1, <1>3 DEF Unborn
    <3> QED BY <1>1, <3>1 DEF ChunksOf
  <2>5. bases'[d.base].org = d.org
    BY <1>2, <2>1, <2>3 DEF WholeDocument
  <2> QED BY <2>1, <2>4, <2>5 DEF WholeDocument
<1>7. ASSUME NEW d \in p.documents
      PROVE  WholeDocument(d)'
  <2>1. /\ d.base = ask[r].base /\ d.org = ask[r].org /\ d.id[1] = r
        /\ Finished(d, p.chunks)
    BY <1>3
  <2>2. ChunksOf(d)' = ChunksIn(p.chunks, d.id)
    <3>1. \A c \in chunks : c.document # d.id
      BY <1>1, <2>1 DEF Unborn
    <3> QED BY <1>1, <3>1 DEF ChunksOf, ChunksIn
  <2>3. bases'[d.base].org = d.org
    BY <1>2, <1>3, <1>4, <2>1
  <2>4. /\ d.status = "ready" /\ d.chunk_count = Len(PiecesOf[d.body])
        /\ ChunksIn(p.chunks, d.id) =
              {[document |-> d.id, base |-> d.base, org |-> d.org,
                sequence |-> i, content |-> PiecesOf[d.body][i]] :
                  i \in 1 .. d.chunk_count}
    BY <2>1 DEF Finished, RowsOf
  <2> QED BY <2>2, <2>3, <2>4 DEF WholeDocument
<1>8. \A d, e \in documents' : d.base = e.base /\ d.body = e.body => d = e
  <2>1. /\ \A d, e \in p.documents : d.body = e.body => d = e
        /\ \A d \in p.documents, e \in documents : d.base = e.base => d.body # e.body
    BY FactsOf DEF NoTwins
  <2>2. \A d, e \in documents : d.base = e.base /\ d.body = e.body => d = e
    BY <1>5 DEF WholeDocuments
  <2> QED BY <1>1, <2>1, <2>2
<1>9. ASSUME NEW b \in Requests
      PROVE  bases'[b].document_count = Cardinality(DocumentsOf(b)')
  <2>1. /\ bases[b].document_count = Cardinality(DocumentsOf(b))
        /\ IsFiniteSet(documents) /\ IsFiniteSet(p.documents)
    BY <1>1, <1>5, PendingAtCommit DEF WholeDocuments, LibraryInv, Stocked
  <2>2. CASE b = ask[r].base /\ p.documents # {}
    <3>1. DocumentsOf(b)' = DocumentsOf(b) \cup p.documents
      BY <1>1, <1>3, <2>2 DEF DocumentsOf
    <3>2. DocumentsOf(b) \cap p.documents = {}
      BY <1>1, <1>3 DEF DocumentsOf, Unborn
    <3>3. DocumentsOf(b) \in SUBSET documents
      BY DEF DocumentsOf
    <3>4. IsFiniteSet(DocumentsOf(b)) /\ Cardinality(DocumentsOf(b)) \in Nat
          /\ Cardinality(p.documents) \in Nat
      BY <2>1, <3>3, FS_Subset, FS_CardinalityType
    <3>5. Cardinality(DocumentsOf(b) \cup p.documents)
             = Cardinality(DocumentsOf(b)) + Cardinality(p.documents)
      <4>1. Cardinality(DocumentsOf(b) \cup p.documents)
               = Cardinality(DocumentsOf(b)) + Cardinality(p.documents)
                    - Cardinality(DocumentsOf(b) \cap p.documents)
        BY <2>1, <3>4, FS_Union
      <4>2. Cardinality(DocumentsOf(b) \cap p.documents) = 0
        BY <3>2, FS_EmptySet
      <4> QED BY <3>4, <4>1, <4>2
    <3>6. p.count > 0
          /\ p.count = bases[ask[r].base].document_count + Cardinality(p.documents)
      BY <1>1, <2>2, PendingAtCommit
    <3> QED BY <1>2, <2>1, <2>2, <3>1, <3>5, <3>6
  <2>3. CASE b # ask[r].base \/ p.documents = {}
    <3>1. DocumentsOf(b)' = DocumentsOf(b)
      BY <1>1, <1>3, <2>3 DEF DocumentsOf
    <3>2. ~(b = ask[r].base /\ p.count > 0)
      BY <1>1, <2>3, PendingAtCommit
    <3> QED BY <1>2, <2>1, <3>1, <3>2
  <2> QED BY <2>2, <2>3
<1> QED BY <1>1, <1>6, <1>7, <1>8, <1>9 DEF WholeDocuments

\* A run that commits has ended; one that does not, has no steps.
LEMMA RunAtCommit ==
    ASSUME LibraryInv, NEW r \in Requests, request[r].phase = "ready",
           NEW p, p = pending[r]
    PROVE  \/ /\ p.run = NoRun /\ p.steps = {} /\ p.checkpoints = {}
           \/ /\ p.run # NoRun /\ p.run.org = ask[r].org /\ p.run.org # None
              /\ Ended(r, p.run, p.steps, p.checkpoints)
              /\ Cardinality(p.run.citations) <= RUN_LIMIT
              /\ p.run.citations # {} => \E s \in p.steps : s.node = "retrieve"
              /\ \A c \in p.run.citations : c \in chunks /\ c.org = ask[r].org
<1>1. Told(r, request[r], p) /\ Retrieved(r, request[r], p)
  BY FactsOf
<1>2. ask[r].org # None
  BY OrgsAreSome DEF LibraryInv
<1>3. \A c \in request[r].hits : c \in chunks /\ c.org = ask[r].org
  BY <1>1 DEF Retrieved
<1>4. CASE ask[r].kind = "run"
  <2>1. /\ p.run.org = ask[r].org /\ Ended(r, p.run, p.steps, p.checkpoints)
        /\ p.run.citations = request[r].hits /\ Cardinality(request[r].hits) <= RUN_LIMIT
        /\ request[r].hits # {} => \E s \in p.steps : s.node = "retrieve"
    BY <1>1, <1>4 DEF Told, Reading
  <2>2. p.run # NoRun
    BY <1>2, <2>1 DEF NoRun
  <2> QED BY <1>2, <1>3, <2>1, <2>2
<1>5. CASE ask[r].kind # "run"
  BY <1>1, <1>5 DEF Told
<1> QED BY <1>4, <1>5

LEMMA CommitCited ==
    ASSUME LibraryInv, NEW r \in Requests, Commit(r)
    PROVE  Cited'
<1> SUFFICES ASSUME NEW p, p = pending[r]
             PROVE  Cited'
  OBVIOUS
<1>1. /\ request[r].phase = "ready" /\ Unborn(r) /\ chunks' = chunks \cup p.chunks
      /\ citations' = citations \cup p.citations
      /\ \A x \in Requests : runs'[x] = IF x = r /\ p.run # NoRun THEN p.run ELSE runs[x]
  BY AtCommit
<1>2. Cited
  BY DEF LibraryInv
<1>3. /\ Cardinality(p.citations) <= CHAT_RETRIEVE_LIMIT
      /\ \A c \in p.citations :
            /\ c.message = r /\ c.org = ask[r].org
            /\ c.chunk \in chunks /\ c.chunk.org = ask[r].org
  BY FactsOf DEF Retrieved
<1>4. \A c \in citations' : c.chunk \in chunks' /\ c.chunk.org = c.org
  BY <1>1, <1>2, <1>3 DEF Cited
<1>5. ASSUME NEW m \in Requests
      PROVE  Cardinality({c \in citations' : c.message = m}) <= CHAT_RETRIEVE_LIMIT
  <2>1. CASE m = r
    <3>1. {c \in citations' : c.message = m} = p.citations
      BY <1>1, <1>3, <2>1 DEF Unborn
    <3> QED BY <1>3, <3>1
  <2>2. CASE m # r
    <3>1. {c \in citations' : c.message = m} = {c \in citations : c.message = m}
      BY <1>1, <1>3, <2>2
    <3> QED BY <1>2, <3>1 DEF Cited
  <2> QED BY <2>1, <2>2
<1>6. ASSUME NEW x \in Requests
      PROVE  /\ Cardinality(runs'[x].citations) <= RUN_LIMIT
             /\ \A c \in runs'[x].citations : c \in chunks' /\ c.org = runs'[x].org
  <2>1. CASE x = r /\ p.run # NoRun
    <3>1. runs'[x] = p.run
      BY <1>1, <2>1
    <3>2. /\ p.run.org = ask[r].org /\ Cardinality(p.run.citations) <= RUN_LIMIT
          /\ \A c \in p.run.citations : c \in chunks /\ c.org = ask[r].org
      BY <1>1, <2>1, RunAtCommit
    <3> QED BY <1>1, <3>1, <3>2
  <2>2. CASE ~(x = r /\ p.run # NoRun)
    <3>1. runs'[x] = runs[x]
      BY <1>1, <2>2
    <3> QED BY <1>1, <1>2, <3>1 DEF Cited
  <2> QED BY <2>1, <2>2
<1> QED BY <1>4, <1>5, <1>6 DEF Cited

LEMMA CommitTold ==
    ASSUME LibraryInv, NEW r \in Requests, Commit(r)
    PROVE  RunsAreTold'
<1> SUFFICES ASSUME NEW p, p = pending[r]
             PROVE  RunsAreTold'
  OBVIOUS
<1>1. /\ request[r].phase = "ready" /\ runs[r] = NoRun
      /\ steps' = steps \cup p.steps /\ checkpoints' = checkpoints \cup p.checkpoints
      /\ \A x \in Requests : runs'[x] = IF x = r /\ p.run # NoRun THEN p.run ELSE runs[x]
  BY AtCommit DEF Unborn
<1>2. RunsAreTold
  BY DEF LibraryInv
<1>3. StepsOf(r) = {} /\ CheckpointsOf(r) = {}
  BY <1>1, <1>2 DEF RunsAreTold, NoRun
<1>4. (\A s \in p.steps : s.run = r) /\ (\A c \in p.checkpoints : c.run = r)
  <2>1. \/ p.steps = {} /\ p.checkpoints = {}
        \/ Ended(r, p.run, p.steps, p.checkpoints)
    BY <1>1, RunAtCommit
  <2>2. ASSUME Ended(r, p.run, p.steps, p.checkpoints)
        PROVE  /\ \A s \in p.steps : s.run = r
               /\ \A c \in p.checkpoints : c.run = r
    <3>1. \A s \in p.steps : s.run = r
      BY <2>2 DEF Ended, InARow
    <3>2. \E n : p.checkpoints \subseteq {[run |-> r, step |-> n]}
      BY <2>2 DEF Ended
    <3> QED BY <3>1, <3>2
  <2> QED BY <2>1, <2>2
<1>5. StepsOf(r)' = p.steps /\ CheckpointsOf(r)' = p.checkpoints
  BY <1>1, <1>3, <1>4 DEF StepsOf, CheckpointsOf
<1>6. ASSUME NEW x \in Requests
      PROVE  IF runs'[x].org = None THEN StepsOf(x)' = {} /\ CheckpointsOf(x)' = {}
             ELSE /\ Ended(x, runs'[x], StepsOf(x)', CheckpointsOf(x)')
                  /\ runs'[x].citations # {} => \E s \in StepsOf(x)' : s.node = "retrieve"
  <2>1. CASE x # r
    <3>1. runs'[x] = runs[x] /\ StepsOf(x)' = StepsOf(x) /\ CheckpointsOf(x)' = CheckpointsOf(x)
      BY <1>1, <1>4, <2>1 DEF StepsOf, CheckpointsOf
    <3> QED BY <1>2, <3>1 DEF RunsAreTold
  <2>2. CASE x = r /\ p.run = NoRun
    <3>1. p.steps = {} /\ p.checkpoints = {}
      BY <1>1, <2>2, RunAtCommit
    <3>2. runs'[x].org = None
      BY <1>1, <2>2 DEF NoRun
    <3> QED BY <1>5, <2>2, <3>1, <3>2
  <2>3. CASE x = r /\ p.run # NoRun
    <3>1. runs'[x] = p.run
      BY <1>1, <2>3
    <3>2. /\ p.run.org # None
          /\ Ended(r, p.run, p.steps, p.checkpoints)
          /\ p.run.citations # {} => \E s \in p.steps : s.node = "retrieve"
      BY <1>1, <2>3, RunAtCommit
    <3> QED BY <1>5, <2>3, <3>1, <3>2
  <2> QED BY <2>1, <2>2, <2>3
<1> QED BY <1>6 DEF RunsAreTold, Ended

LEMMA CommitKeeps ==
    ASSUME LibraryInv, NEW r \in Requests, Commit(r)
    PROVE  LibraryInv'
<1>1. LibraryTypeOK'
  BY CommitTypes
<1>2. \A x \in Requests : Sound(x, request[x], pending[x])'
  BY CommitSound
<1>3. \A x \in Requests : (request[x].phase # "done" => Unborn(x))'
  BY CommitUnborn
<1>4. \A y, x \in Requests : (y # x => Apart(y, pending[y], x, pending[x]))'
  BY CommitApart
<1>5. (Stocked /\ WholeDocuments /\ Cited /\ RunsAreTold)'
  BY CommitStocked, CommitWhole, CommitCited, CommitTold
<1> QED BY <1>1, <1>2, <1>3, <1>4, <1>5 DEF LibraryInv

-----------------------------------------------------------------------------
(***************************************************************************)
(* The invariant, and what follows from it.                                *)
(***************************************************************************)
LEMMA LibraryInitially ==
    ASSUME Init
    PROVE  LibraryInv
<1>1. /\ request = [r \in Requests |-> Blank] /\ pending = [r \in Requests |-> Nothing]
      /\ bases = [r \in Requests |-> NoBase] /\ runs = [r \in Requests |-> NoRun]
      /\ agents = [r \in Requests |-> NoAgent]
      /\ documents = {} /\ chunks = {} /\ citations = {} /\ steps = {} /\ checkpoints = {}
      /\ ask \in [Requests -> Ask]
  BY LibraryAssumption DEF Init
<1>2. NoBase \in Base /\ NoAgent \in Agent /\ NoRun \in Run /\ Blank \in RequestState
      /\ Nothing \in Writes
  BY NothingIsWritten DEF NoBase, Base, NoAgent, Agent, NoRun, Run, Blank, RequestState
<1>3. LibraryTypeOK
  BY <1>1, <1>2 DEF LibraryTypeOK, AgentTables, RunTables, KnowledgeTables, CitationTable
<1>4. IsFiniteSet({}) /\ Cardinality({}) = 0
      /\ CHAT_RETRIEVE_LIMIT \in Nat /\ RUN_LIMIT \in Nat
  BY FS_EmptySet, LibraryAssumption
<1>5. ASSUME NEW r \in Requests
      PROVE  /\ Sound(r, request[r], pending[r])
             /\ \A x \in Requests : Apart(r, pending[r], x, pending[x])
  <2> SUFFICES ASSUME NEW q, q = Blank, NEW p, p = Nothing
               PROVE  /\ Sound(r, q, p)
                      /\ \A x \in Requests : Apart(r, p, x, pending[x])
    BY <1>1
  <2>1. q.phase = "new" /\ q.hits = {} /\ q.nearest = {}
    BY DEF Blank
  <2>2. Reached(r, q) /\ q.phase \notin Filing
    BY <2>1 DEF Reached, Reading, Filing
  <2>3. Told(r, q, p) /\ Founding(r, p)
    BY <2>1, NothingIsWritten DEF Told, Founding, Reading
  <2> QED BY <2>1, <2>2, <2>3, NothingIsWritten, WithoutDocuments
<1>6. \A r \in Requests : Unborn(r)
  BY <1>1 DEF Unborn
<1>7. Stocked
  BY <1>1, <1>4 DEF Stocked
<1>8. WholeDocuments
  <2>1. \A b \in Requests : DocumentsOf(b) = {}
    BY <1>1 DEF DocumentsOf
  <2> QED BY <1>1, <1>4, <2>1 DEF WholeDocuments, NoBase
<1>9. Cited
  <2>1. \A m \in Requests : {c \in citations : c.message = m} = {}
    BY <1>1
  <2>2. \A r \in Requests : runs[r].citations = {}
    BY <1>1 DEF NoRun
  <2> QED BY <1>1, <1>4, <2>1, <2>2 DEF Cited
<1>10. RunsAreTold
  BY <1>1 DEF RunsAreTold, NoRun, StepsOf, CheckpointsOf
<1> QED BY <1>3, <1>5, <1>6, <1>7, <1>8, <1>9, <1>10 DEF LibraryInv

LEMMA LibraryStep ==
    ASSUME LibraryInv, [Next]_libraryVars
    PROVE  LibraryInv'
<1>1. ASSUME NEW r \in Requests, Opens(r)
      PROVE  LibraryInv'
  BY <1>1, OpenKeeps, StartRunKeeps, PublishKeeps DEF Opens
<1>2. ASSUME NEW r \in Requests, Goes(r)
      PROVE  LibraryInv'
  BY <1>2, InsertKeeps, CheckFileKeeps, InsertDocumentKeeps, StoreChunksKeeps,
     CountDocumentKeeps, SearchVectorsKeeps, SearchWordsKeeps, AnswerSearchKeeps,
     persist_citationsKeeps, RetrieveKeeps, UseToolsKeeps, ComposeKeeps,
     ComposeFailsKeeps, CommitKeeps, StopKeeps DEF Goes
<1>3. CASE UNCHANGED libraryVars
  <2>1. LibraryTypeOK'
    BY <1>3 DEF libraryVars, stored, LibraryInv, LibraryTypeOK, AgentTables, RunTables,
                KnowledgeTables, CitationTable
  <2>2. ASSUME NEW r \in Requests PROVE Sound(r, request[r], pending[r])'
    <3> SUFFICES ASSUME NEW q, q = request[r], NEW p, p = pending[r]
                 PROVE  Sound(r, q, p)'
      BY <1>3 DEF libraryVars
    <3>1. Sound(r, q, p) /\ LibraryTypeOK
      BY DEF LibraryInv
    <3>2. ask' = ask /\ bases' = bases /\ documents' = documents /\ chunks' = chunks
      BY <1>3 DEF libraryVars, stored
    <3> QED BY <3>1, <3>2, SoundKept DEF Added
  <2>3. \A r \in Requests : (request[r].phase # "done" => Unborn(r))'
    BY <1>3 DEF libraryVars, stored, LibraryInv, Unborn
  <2>4. \A r, x \in Requests : (r # x => Apart(r, pending[r], x, pending[x]))'
    BY <1>3 DEF libraryVars, stored, LibraryInv, Apart
  <2>5. (Stocked /\ WholeDocuments /\ Cited)'
    BY <1>3 DEF libraryVars, stored, LibraryInv, Stocked, WholeDocuments, WholeDocument,
                ChunksOf, DocumentsOf, Cited
  <2>6. RunsAreTold'
    BY <1>3 DEF libraryVars, stored, LibraryInv, RunsAreTold, StepsOf, CheckpointsOf
  <2> QED BY <2>1, <2>2, <2>3, <2>4, <2>5, <2>6 DEF LibraryInv
<1>4. ASSUME NEW r \in Requests, Abort(r)
      PROVE  LibraryInv'
  BY <1>4, StopKeeps
<1> QED BY <1>1, <1>2, <1>3, <1>4 DEF Next

LEMMA LibraryAlways == Spec => []LibraryInv
<1>1. Init => LibraryInv
  BY LibraryInitially
<1>2. LibraryInv /\ [Next]_libraryVars => LibraryInv'
  BY LibraryStep
<1> QED BY <1>1, <1>2, PTL DEF Spec

(***************************************************************************)
(* The tables fit the schema, and what a transaction has written is rows   *)
(* of them, whatever is asked and whichever requests fail.                 *)
(***************************************************************************)
THEOREM LibraryTypeCorrect == Spec => []LibraryTypeOK
<1>1. LibraryInv => LibraryTypeOK
  BY DEF LibraryInv
<1> QED BY <1>1, LibraryAlways, PTL

(***************************************************************************)
(* However many requests upload the same files to a base at once, in       *)
(* whichever order they wait, fail and commit: every stored document is    *)
(* ready and has exactly the chunks of its text, no base holds a text      *)
(* twice, and its count is the number of its documents.                    *)
(* (KnowledgeService.ingest)                                               *)
(***************************************************************************)
THEOREM WholeDocumentsHolds == Spec => []WholeDocuments
<1>1. LibraryInv => WholeDocuments
  BY DEF LibraryInv
<1> QED BY <1>1, LibraryAlways, PTL

(***************************************************************************)
(* What a message or a run cites, and what a request under way has found,  *)
(* is stored and of its own organization, and so are the document and the  *)
(* base of it; and the limits are kept.                                    *)
(* (KnowledgeService.retrieve, persist_citations, AgentService.run)        *)
(***************************************************************************)
THEOREM CitesOwnShelfHolds == Spec => []CitesOwnShelf
<1>1. ASSUME LibraryInv PROVE CitesOwnShelf
  <2>1. Stocked /\ Cited
    BY <1>1 DEF LibraryInv
  <2>2. ASSUME NEW some, NEW org, \A c \in some : c \in chunks /\ c.org = org
        PROVE  FromShelf(some, org)
    BY <2>1, <2>2 DEF Stocked, FromShelf
  <2>3. \A c \in citations : FromShelf({c.chunk}, c.org)
    BY <2>1, <2>2 DEF Cited
  <2>4. ASSUME NEW r \in Requests
        PROVE  /\ FromShelf(request[r].hits, ask[r].org)
               /\ FromShelf(runs[r].citations, runs[r].org)
               /\ Cardinality(runs[r].citations) <= RUN_LIMIT
    <3>1. \A c \in request[r].hits : c \in chunks /\ c.org = ask[r].org
      BY <1>1, FactsOf DEF Retrieved
    <3>2. /\ Cardinality(runs[r].citations) <= RUN_LIMIT
          /\ \A c \in runs[r].citations : c \in chunks /\ c.org = runs[r].org
      BY <2>1 DEF Cited
    <3> QED BY <2>2, <3>1, <3>2
  <2> QED BY <2>1, <2>3, <2>4 DEF CitesOwnShelf, Cited
<1> QED BY <1>1, LibraryAlways, PTL

(***************************************************************************)
(* A stored run has ended and its steps tell how: numbered from one        *)
(* without a gap, as many as it counts when it has completed and one less  *)
(* when it has failed, with a checkpoint at the last of a completed one;   *)
(* and what it cites, a step has retrieved.  (AgentService.run)            *)
(***************************************************************************)
THEOREM RunsTellTheirStepsHolds == Spec => []RunsTellTheirSteps
<1>1. ASSUME LibraryInv PROVE RunsTellTheirSteps
  <2> SUFFICES ASSUME NEW r \in Requests, NEW run, run = runs[r],
                      NEW last, last = (IF run.status = "completed" THEN run.step_count
                                        ELSE run.step_count - 1),
                      NEW some, some = StepsOf(r), NEW marks, marks = CheckpointsOf(r)
               PROVE  IF run.org = None THEN some = {} /\ marks = {}
                      ELSE /\ run.status # "running"
                           /\ \A i \in 1 .. last : \E s \in some : s.sequence = i
                           /\ Cardinality(some) = last
                           /\ \A s \in some :
                                 /\ s.node = "retrieve" => s.sequence = 1
                                 /\ s.node = "compose" <=>
                                       run.status = "completed" /\ s.sequence = last
                           /\ marks = IF run.status = "completed"
                                      THEN {[run |-> r, step |-> last]} ELSE {}
                           /\ run.citations # {} =>
                                 \E s \in some : s.node = "retrieve"
    BY DEF RunsTellTheirSteps
  <2>1. IF run.org = None THEN some = {} /\ marks = {}
        ELSE /\ Ended(r, run, some, marks)
             /\ run.citations # {} => \E s \in some : s.node = "retrieve"
    BY <1>1 DEF LibraryInv, RunsAreTold
  <2>2. Ended(r, run, some, marks) =>
           /\ run.status # "running"
           /\ InARow(r, some, last)
           /\ \A s \in some :
                 s.node = "compose" <=> run.status = "completed" /\ s.sequence = last
           /\ marks = IF run.status = "completed" THEN {[run |-> r, step |-> last]} ELSE {}
    BY DEF Ended
  <2> QED BY <2>1, <2>2 DEF InARow
<1> QED BY <1>1, LibraryAlways, PTL

\* What is stored of a document, by sequence number; and that it can be read back.
ContentAt(d, i) == (CHOOSE c \in ChunksOf(d) : c.sequence = i).content
Contents(d) == [i \in 1 .. d.chunk_count |-> ContentAt(d, i)]

ReadBack ==
    /\ \A c \in chunks : c.content # <<>> /\ TextLength(c.content) <= MAX_CHUNK_CHARS
    /\ \A d \in documents :
          /\ Letters(FlattenSeq(Contents(d))) = Letters(FlattenSeq(d.body))
          /\ Short(FlattenSeq(d.body)) => FlattenSeq(Contents(d)) = FlattenSeq(d.body)

\* What is stored of a document is what its text was cut into.
LEMMA ContentsArePieces ==
    ASSUME LibraryInv, NEW d \in documents
    PROVE  /\ d.body \in Seq(Seq(Nat)) /\ Contents(d) = chunk_text(d.body)
           /\ \A c \in ChunksOf(d) :
                 \E i \in 1 .. Len(chunk_text(d.body)) : c.content = chunk_text(d.body)[i]
<1> DEFINE pieces == chunk_text(d.body)
           Piece(i) == [document |-> d.id, base |-> d.base, org |-> d.org,
                        sequence |-> i, content |-> PiecesOf[d.body][i]]
<1>1. WholeDocument(d) /\ d \in Document
  BY DEF LibraryInv, WholeDocuments, LibraryTypeOK, KnowledgeTables
<1>2. d.body \in Bodies
  BY <1>1 DEF Document
<1>3. d.body \in Seq(Seq(Nat)) /\ PiecesOf[d.body] = pieces
  BY <1>2, BodiesAreTexts DEF PiecesOf
<1>4. pieces \in Seq(Seq(Nat))
  BY <1>3, ChunksType
<1>5. d.chunk_count = Len(pieces) /\ ChunksOf(d) = {Piece(i) : i \in 1 .. Len(pieces)}
  BY <1>1, <1>3 DEF WholeDocument
<1>6. ASSUME NEW i \in 1 .. Len(pieces)
      PROVE  ContentAt(d, i) = pieces[i]
  <2>1. Piece(i) \in ChunksOf(d) /\ Piece(i).sequence = i
    BY <1>5
  <2>2. \A c \in ChunksOf(d) : c.sequence = i => c = Piece(i)
    BY <1>5
  <2>3. (CHOOSE c \in ChunksOf(d) : c.sequence = i) = Piece(i)
    BY <2>1, <2>2
  <2>4. Piece(i).content = pieces[i]
    BY <1>3
  <2> HIDE DEF Piece, pieces
  <2>5. ContentAt(d, i) = Piece(i).content
    BY <2>3 DEF ContentAt
  <2> QED BY <2>4, <2>5
<1>7. Contents(d) = [i \in 1 .. Len(pieces) |-> pieces[i]]
  BY <1>5, <1>6 DEF Contents
<1>8. pieces = [i \in 1 .. Len(pieces) |-> pieces[i]]
  BY <1>4, LenProperties
<1>9. \A c \in ChunksOf(d) : \E i \in 1 .. Len(pieces) : c.content = pieces[i]
  BY <1>3, <1>5
<1> QED BY <1>3, <1>7, <1>8, <1>9

(***************************************************************************)
(* A stored document can be read back from what is stored of it: no chunk  *)
(* is empty or longer than a chunk may be, and the contents of a           *)
(* document's chunks, by their sequence numbers, hold the letters of its   *)
(* text, and are its words in their order unless one of them is longer     *)
(* than a chunk.  (KnowledgeService.ingest, chunk_text)                    *)
(***************************************************************************)
THEOREM DocumentsReadBack == Spec => []ReadBack
<1>1. ASSUME LibraryInv PROVE ReadBack
  <2>1. ASSUME NEW c \in chunks
        PROVE  c.content # <<>> /\ TextLength(c.content) <= MAX_CHUNK_CHARS
    <3>1. PICK d \in documents : d.id = c.document
      BY <1>1 DEF LibraryInv, Stocked
    <3>2. d.body \in Seq(Seq(Nat))
      BY <1>1, ContentsArePieces
    <3>3. PICK i \in 1 .. Len(chunk_text(d.body)) : c.content = chunk_text(d.body)[i]
      BY <1>1, <3>1, ContentsArePieces DEF ChunksOf
    <3>4. chunk_text(d.body) \in Seq(Fitting)
      BY <3>2, ChunksFit
    <3>5. c.content \in Fitting
      BY <3>3, <3>4, ElementOfSeq
    <3> QED BY <3>5 DEF Fitting
  <2>2. ASSUME NEW d \in documents
        PROVE  /\ Letters(FlattenSeq(Contents(d))) = Letters(FlattenSeq(d.body))
               /\ Short(FlattenSeq(d.body)) => FlattenSeq(Contents(d)) = FlattenSeq(d.body)
    BY <1>1, ContentsArePieces, ChunksHoldTheWords
  <2> QED BY <2>1, <2>2 DEF ReadBack
<1> QED BY <1>1, LibraryAlways, PTL

=============================================================================
