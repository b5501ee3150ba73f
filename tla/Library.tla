------------------------------ MODULE Library -------------------------------
(***************************************************************************)
(* Knowledge bases and the agents that read them (services/api: knowledge, *)
(* agents and their routers): documents are ingested into a base, cut into *)
(* chunks and counted; searches, chats and agent runs retrieve chunks and  *)
(* cite them.                                                              *)
(*                                                                         *)
(* Every request is one transaction of PostgreSQL at READ COMMITTED, split *)
(* at its statements.  What it has written is in pending[r] until Commit,  *)
(* and holds the unique-index entries and the row of those writes: others  *)
(* that write the same wait, and PostgreSQL breaks cycles of waiting.  The *)
(* client is answered before the commit.  Row-level security lets a        *)
(* transaction see the rows of its organization only.                      *)
(*                                                                         *)
(* A base, an agent, a run and a message are named after the request that  *)
(* makes them.  A body is its text; equal texts have equal digests.  What  *)
(* a query is like is left open: any chunks may be nearest to it, or hold  *)
(* its words.  Embeddings, scores and quotes are left out; whatever the    *)
(* gateway answers to an embedding, there is a vector for each text.       *)
(* Nothing deletes a base, a document, an agent or a run, and no operation *)
(* sets the max_steps of an agent, so that a run never halts at it.        *)
(***************************************************************************)
EXTENDS Chunking

CONSTANTS
    Orgs,               \* organizations
    Requests,           \* requests; also what they create
    Names,              \* names of bases, slugs of agents
    Slugs,              \* the names that SLUG_PATTERN matches
    Bodies,             \* the texts of files
    Workloads,          \* what the requests may ask together
    CHAT_RETRIEVE_LIMIT,\* hits of a chat (knowledge.py:25)
    BASE_LIMIT,         \* hits of one base in a search or a run (knowledge.py:271)
    RUN_LIMIT,          \* hits of a run (agents.py:295)
    MAX_FILES,          \* knowledge_upload_max_files
    MaxConcurrent,      \* bound: requests under way at a time
    Disturbances,       \* whether the "database" may fail
    None                \* absent

Kind ==
    {"create_base", "ingest", "upload", "search", "chat",
     "create_agent", "publish", "run"}
NATIVE_TOOLS == {"clock", "knowledge_search"}

\* What a request asks: of which organization, for which name, base, files or
\* agent; the bases and tools of an agent; whether a prompt asks for the time.
Ask ==
    [kind : Kind, org : Orgs, name : Names \cup {None}, base : Requests,
     files : Seq(Bodies), agent : Requests, shelf : SUBSET Requests,
     tools : SUBSET NATIVE_TOOLS, timely : BOOLEAN]

ASSUME LibraryAssumption ==
    /\ Slugs \subseteq Names
    /\ Bodies \subseteq Seq(Seq(Nat \ {0}))
    /\ Workloads \subseteq [Requests -> Ask]
    /\ None \notin Orgs \cup Requests \cup Names
    /\ {CHAT_RETRIEVE_LIMIT, BASE_LIMIT, RUN_LIMIT, MAX_FILES, MaxConcurrent}
          \subseteq Nat \ {0}
    /\ Disturbances \subseteq {"database"}

\* What each text is cut into.
PiecesOf == [body \in Bodies |-> chunk_text(body)]

VARIABLES
    ask,            \* what each request asks for
    bases,          \* knowledge.knowledge_bases
    documents,      \* knowledge.documents
    chunks,         \* knowledge.chunks
    citations,      \* chat.citations
    agents,         \* agent.agents, with their one version
    runs,           \* agent.agent_runs
    steps,          \* agent.agent_steps
    checkpoints,    \* agent.checkpoints
    request,        \* how far each request is
    pending         \* what its transaction has written

stored == <<bases, documents, chunks, citations, agents, runs, steps, checkpoints>>
libraryVars == <<ask, stored, request, pending>>

DocumentId == Requests \X (Nat \ {0})
Base == [org : Orgs \cup {None}, name : Names \cup {None}, document_count : Nat]
NoBase == [org |-> None, name |-> None, document_count |-> 0]
Document ==
    [id : DocumentId, base : Requests, org : Orgs, body : Bodies,
     status : {"embedding", "ready"}, chunk_count : Nat]
Chunk ==
    [document : DocumentId, base : Requests, org : Orgs,
     sequence : Nat \ {0}, content : Seq(Nat)]
Citation == [message : Requests, org : Orgs, chunk : Chunk]
Agent ==
    [org : Orgs \cup {None}, slug : Names \cup {None},
     status : {"draft", "published"}, shelf : SUBSET Requests,
     tools : SUBSET NATIVE_TOOLS]
NoAgent ==
    [org |-> None, slug |-> None, status |-> "draft", shelf |-> {}, tools |-> {}]
Run ==
    [org : Orgs \cup {None}, agent : Requests \cup {None},
     status : {"running", "completed", "failed"}, step_count : Nat,
     citations : SUBSET Chunk]
NoRun ==
    [org |-> None, agent |-> None, status |-> "running", step_count |-> 0,
     citations |-> {}]
Step == [run : Requests, sequence : Nat \ {0}, node : {"retrieve", "tool", "compose"}]
Checkpoint == [run : Requests, step : Nat \ {0}]

\* How far a request is: the file it is at, those it has taken and those it has
\* turned down; the bases it has yet to search, the one it searches, the nearest
\* chunks of that, what it has found, and the last step of its run.
RequestState ==
    [phase : {"new", "insert", "check", "embed", "count", "search", "words", "found",
              "tools", "compose", "ready", "done", "failed", "refused"},
     file : Nat, taken : SUBSET Nat, rejected : SUBSET Nat,
     todo : SUBSET Requests, at : Requests \cup {None},
     nearest : SUBSET Chunk, hits : SUBSET Chunk, sequence : Nat]
Blank ==
    [phase |-> "new", file |-> 1, taken |-> {}, rejected |-> {}, todo |-> {},
     at |-> None, nearest |-> {}, hits |-> {}, sequence |-> 0]

\* What a transaction has written; count is the document_count it has given its
\* base, zero when it has not touched that row.
Writes ==
    [base : Base, count : Nat, documents : SUBSET Document, chunks : SUBSET Chunk,
     citations : SUBSET Citation, agent : Agent, publishes : BOOLEAN,
     run : Run, steps : SUBSET Step, checkpoints : SUBSET Checkpoint]
Nothing ==
    [base |-> NoBase, count |-> 0, documents |-> {}, chunks |-> {}, citations |-> {},
     agent |-> NoAgent, publishes |-> FALSE, run |-> NoRun, steps |-> {},
     checkpoints |-> {}]

\* The tables, with their keys and unique columns left to the handlers.
AgentTables == agents \in [Requests -> Agent]
RunTables ==
    /\ runs \in [Requests -> Run]
    /\ steps \in SUBSET Step
    /\ checkpoints \in SUBSET Checkpoint
KnowledgeTables ==
    /\ bases \in [Requests -> Base]
    /\ documents \in SUBSET Document
    /\ chunks \in SUBSET Chunk
CitationTable == citations \in SUBSET Citation

\* Types: what is stored fits the schema, whatever the handlers make of it.
LibraryTypeOK ==
    /\ ask \in [Requests -> Ask]
    /\ AgentTables /\ RunTables /\ KnowledgeTables /\ CitationTable
    /\ request \in [Requests -> RequestState]
    /\ pending \in [Requests -> Writes]

-----------------------------------------------------------------------------
UnderWay == {r \in Requests : request[r].phase \notin {"new", "done", "failed", "refused"}}

\* A request of this kind opens its transaction.
Starts(r, kinds) ==
    /\ ask[r].kind \in kinds
    /\ request[r].phase = "new"
    /\ Cardinality(UnderWay) < MaxConcurrent

\* Mutant of Visible: a transaction for no organization in particular.
VisibleToAll(r, org) == org # None

\* Row-level security: the rows of the organization a transaction is for.
Visible(r, org) == org = ask[r].org

get_base(r, b) == Visible(r, bases[b].org)
get_agent(r, a) == Visible(r, agents[a].org)

\* The pieces of a transaction's state that a step may change.
Continue(r, state) == request' = [request EXCEPT ![r] = state]
Write(r, rows) == pending' = [pending EXCEPT ![r] = rows]

\* Mutant of Rollback: the connection goes back to the pool inside its transaction.
RollbackKeepsItsRows(r, phase) ==
    /\ Continue(r, [Blank EXCEPT !.phase = phase])
    /\ UNCHANGED pending

\* The end of a request: answered with an error, its transaction rolled back.
Rollback(r, phase) ==
    /\ Continue(r, [Blank EXCEPT !.phase = phase])
    /\ Write(r, Nothing)

\* Of the documents of a base, those with this text.
Twins(rows, b, body) == {d \in rows : d.base = b /\ d.body = body}

File(r) == ask[r].files[request[r].file]
Row(r) == [id |-> <<r, request[r].file>>, base |-> ask[r].base,
           org |-> bases[ask[r].base].org, body |-> File(r),
           status |-> "embedding", chunk_count |-> 0]

\* What r is about to write, q has written and not committed: r waits.
WaitsFor(r, q) ==
    /\ q # r
    /\ \/ /\ request[r].phase = "insert" /\ ask[r].kind = "create_base"
          /\ pending[q].base.org = ask[r].org /\ pending[q].base.name = ask[r].name
       \/ /\ request[r].phase = "insert" /\ ask[r].kind = "create_agent"
          /\ pending[q].agent.org = ask[r].org /\ pending[q].agent.slug = ask[r].name
       \/ /\ request[r].phase = "insert" /\ ask[r].kind \in {"ingest", "upload"}
          /\ Twins(pending[q].documents, ask[r].base, File(r)) # {}
       \/ /\ request[r].phase = "count"
          /\ ask[q].base = ask[r].base /\ pending[q].count > 0
Waits(r) == \E q \in Requests : WaitsFor(r, q)

-----------------------------------------------------------------------------
\* create_knowledge_base: the name is looked up ...
FindName(r) ==
    /\ Starts(r, {"create_base"})
    /\ IF \E b \in Requests : /\ Visible(r, bases[b].org)
                              /\ bases[b].org = ask[r].org /\ bases[b].name = ask[r].name
       THEN Rollback(r, "refused")
       ELSE Continue(r, [Blank EXCEPT !.phase = "insert"]) /\ UNCHANGED pending
    /\ UNCHANGED <<ask, stored>>

\* ... and the base inserted, unless one of the name has come in between.
InsertBase(r) ==
    /\ ask[r].kind = "create_base" /\ request[r].phase = "insert"
    /\ ~Waits(r)
    /\ IF \E b \in Requests : bases[b].org = ask[r].org /\ bases[b].name = ask[r].name
       THEN Rollback(r, "failed")
       ELSE /\ Write(r, [Nothing EXCEPT !.base =
                           [org |-> ask[r].org, name |-> ask[r].name, document_count |-> 0]])
            /\ Continue(r, [request[r] EXCEPT !.phase = "ready"])
    /\ UNCHANGED <<ask, stored>>

-----------------------------------------------------------------------------
\* ingest_document and upload_documents: too few or too many files, or a base
\* that cannot be seen, are refused before anything is read.
FindBase(r) ==
    /\ Starts(r, {"ingest", "upload"})
    /\ IF /\ Len(ask[r].files) \in 1 .. MAX_FILES
          /\ get_base(r, ask[r].base)
       THEN Continue(r, [Blank EXCEPT !.phase = "check"]) /\ UNCHANGED pending
       ELSE Rollback(r, "refused")
    /\ UNCHANGED <<ask, stored>>

\* After a file: the next one; after the last, an answer, which is an error when
\* no file was taken.
NextFile(r, taken, rejected) ==
    IF request[r].file < Len(ask[r].files)
    THEN Continue(r, [request[r] EXCEPT !.phase = "check", !.file = @ + 1,
                                        !.taken = taken, !.rejected = rejected])
    ELSE Continue(r, [request[r] EXCEPT !.phase = "ready",
                                        !.taken = taken, !.rejected = rejected])

\* A file without text, or known to the base, its own transaction included, is
\* an error: of the request, or of the file when there may be others.
CheckFile(r) ==
    LET known == Twins({d \in documents : Visible(r, d.org)} \cup pending[r].documents,
                       ask[r].base, File(r)) # {}
        rejected == request[r].rejected \cup {request[r].file}
    IN
    /\ request[r].phase = "check"
    /\ IF File(r) # <<>> /\ ~known
       THEN Continue(r, [request[r] EXCEPT !.phase = "insert"]) /\ UNCHANGED pending
       ELSE IF ask[r].kind = "upload"
               /\ (request[r].taken # {} \/ request[r].file < Len(ask[r].files))
       THEN NextFile(r, request[r].taken, rejected) /\ UNCHANGED pending
       ELSE Rollback(r, "refused")
    /\ UNCHANGED <<ask, stored>>

\* Mutant of InsertDocument: no unique index on a base's digests.
InsertDocumentAgain(r) ==
    /\ ask[r].kind \in {"ingest", "upload"} /\ request[r].phase = "insert"
    /\ Write(r, [pending[r] EXCEPT !.documents = @ \cup {Row(r)}])
    /\ Continue(r, [request[r] EXCEPT !.phase = "embed"])
    /\ UNCHANGED <<ask, stored>>

\* The INSERT fails on a twin that was committed since: the error is none of the
\* handler's own, so that the whole request is lost.
InsertDocument(r) ==
    /\ ask[r].kind \in {"ingest", "upload"} /\ request[r].phase = "insert"
    /\ ~Waits(r)
    /\ IF Twins(documents, ask[r].base, File(r)) # {}
       THEN Rollback(r, "failed")
       ELSE /\ Write(r, [pending[r] EXCEPT !.documents = @ \cup {Row(r)}])
            /\ Continue(r, [request[r] EXCEPT !.phase = "embed"])
    /\ UNCHANGED <<ask, stored>>

\* The gateway embeds the pieces, or their hash does; each is a row.
StoreChunks(r) ==
    LET pieces == PiecesOf[File(r)] IN
    /\ request[r].phase = "embed"
    /\ Write(r, [pending[r] EXCEPT !.chunks = @ \cup
                    {[document |-> Row(r).id, base |-> Row(r).base, org |-> Row(r).org,
                      sequence |-> i, content |-> pieces[i]] : i \in 1 .. Len(pieces)}])
    /\ Continue(r, [request[r] EXCEPT !.phase = "count"])
    /\ UNCHANGED <<ask, stored>>

\* The document becomes ready; the count of the base is raised in the database,
\* by one more than whoever held its row has committed.
CountDocument(r) ==
    LET ready == [Row(r) EXCEPT !.status = "ready",
                                !.chunk_count = Len(PiecesOf[File(r)])]
        before == IF pending[r].count > 0 THEN pending[r].count
                  ELSE bases[ask[r].base].document_count
    IN
    /\ request[r].phase = "count"
    /\ ~Waits(r)
    /\ Write(r, [pending[r] EXCEPT !.documents = (@ \ {Row(r)}) \cup {ready},
                                   !.count = before + 1])
    /\ NextFile(r, request[r].taken \cup {request[r].file}, request[r].rejected)
    /\ UNCHANGED <<ask, stored>>

-----------------------------------------------------------------------------
\* search: the base has to be seen.
StartSearch(r) ==
    /\ Starts(r, {"search"})
    /\ IF get_base(r, ask[r].base)
       THEN /\ Continue(r, [Blank EXCEPT !.phase = "search", !.todo = {ask[r].base}])
            /\ UNCHANGED pending
       ELSE Rollback(r, "refused")
    /\ UNCHANGED <<ask, stored>>

\* A message of a chat: every base of the organization is searched.
StartChat(r) ==
    LET listed == {b \in Requests : get_base(r, b)} IN
    /\ Starts(r, {"chat"})
    /\ Continue(r, [Blank EXCEPT !.phase = IF listed = {} THEN "ready" ELSE "search",
                                 !.todo = listed])
    /\ UNCHANGED <<ask, stored, pending>>

\* A run of an agent, which need not be published: the bases of its version.
StartRun(r) ==
    LET a == ask[r].agent
        reads == "knowledge_search" \in agents[a].tools /\ agents[a].shelf # {}
    IN
    /\ Starts(r, {"run"})
    /\ IF get_agent(r, a)
       THEN /\ Write(r, [Nothing EXCEPT !.run = [NoRun EXCEPT !.org = agents[a].org,
                                                              !.agent = a]])
            /\ Continue(r, [Blank EXCEPT !.phase = IF reads THEN "search" ELSE "tools",
                                         !.todo = IF reads THEN agents[a].shelf ELSE {}])
       ELSE Rollback(r, "refused")
    /\ UNCHANGED <<ask, stored>>

\* How many hits one base gives, and how many all of them.
LimitOfBase(r) == IF ask[r].kind = "chat" THEN CHAT_RETRIEVE_LIMIT ELSE BASE_LIMIT
LimitOfAll(r) ==
    CASE ask[r].kind = "chat" -> CHAT_RETRIEVE_LIMIT
      [] ask[r].kind = "run" -> RUN_LIMIT
      [] OTHER -> BASE_LIMIT

\* The chunks of a base that r can see, and the best of some by any order.
Readable(r, b) == {c \in chunks : c.base = b /\ Visible(r, c.org)}
Best(some, limit) ==
    {best \in SUBSET some : \/ Cardinality(best) = limit
                            \/ best = some /\ Cardinality(some) <= limit}

\* The nearest chunks there are; of those with words of the query, if any, some.
VectorHits(r, b) == Best(Readable(r, b), LimitOfBase(r))
WordHits(r, b) == {some \in SUBSET Readable(r, b) : Cardinality(some) <= LimitOfBase(r)}

\* Hits by words come first; those near to the query fill up.
Merged(words, nearest, limit) ==
    {words \cup fill : fill \in Best(nearest \ words, limit - Cardinality(words))}

\* One base is asked for what is nearest; one that a run cannot see is skipped.
SearchVectors(r) ==
    /\ request[r].phase = "search"
    /\ \E b \in request[r].todo :
          IF get_base(r, b)
          THEN \E nearest \in VectorHits(r, b) :
                  Continue(r, [request[r] EXCEPT !.phase = "words", !.at = b,
                                                 !.nearest = nearest])
          ELSE Continue(r, [request[r] EXCEPT
                               !.phase = IF request[r].todo = {b} THEN "found" ELSE "search",
                               !.todo = @ \ {b}])
    /\ UNCHANGED <<ask, stored, pending>>

\* The same base is asked for words, in a statement of its own.
SearchWords(r) ==
    LET b == request[r].at
        rest == request[r].todo \ {b}
    IN
    /\ request[r].phase = "words"
    /\ \E words \in WordHits(r, b) :
          \E merged \in Merged(words, request[r].nearest, LimitOfBase(r)) :
             Continue(r, [request[r] EXCEPT
                             !.phase = IF rest = {} THEN "found" ELSE "search",
                             !.todo = rest, !.at = None, !.nearest = {},
                             !.hits = @ \cup merged])
    /\ UNCHANGED <<ask, stored, pending>>

\* What a search has found is its answer.
AnswerSearch(r) ==
    /\ ask[r].kind = "search" /\ request[r].phase = "found"
    /\ Continue(r, [request[r] EXCEPT !.phase = "ready"])
    /\ UNCHANGED <<ask, stored, pending>>

\* A chat grounds its prompt in the best hits and cites them.
persist_citations(r) ==
    /\ ask[r].kind = "chat" /\ request[r].phase = "found"
    /\ \E hits \in Best(request[r].hits, LimitOfAll(r)) :
          /\ Write(r, [pending[r] EXCEPT !.citations =
                          {[message |-> r, org |-> ask[r].org, chunk |-> c] : c \in hits}])
          /\ Continue(r, [request[r] EXCEPT !.phase = "ready", !.hits = hits])
    /\ UNCHANGED <<ask, stored>>

-----------------------------------------------------------------------------
\* A step of a run: the next in its sequence.
NextStep(r) == request[r].sequence + 1
Record(r, node) == [run |-> r, sequence |-> NextStep(r), node |-> node]

\* Mutant of Retrieve: the next step gets the number of this one.
RetrieveUncounted(r) ==
    /\ ask[r].kind = "run" /\ request[r].phase = "found"
    /\ \E hits \in Best(request[r].hits, LimitOfAll(r)) :
          /\ Write(r, [pending[r] EXCEPT !.steps = @ \cup {Record(r, "retrieve")}])
          /\ Continue(r, [request[r] EXCEPT !.phase = "tools", !.hits = hits])
    /\ UNCHANGED <<ask, stored>>

\* What a run has retrieved is its first step, and what it cites.
Retrieve(r) ==
    /\ ask[r].kind = "run" /\ request[r].phase = "found"
    /\ \E hits \in Best(request[r].hits, LimitOfAll(r)) :
          /\ Write(r, [pending[r] EXCEPT !.steps = @ \cup {Record(r, "retrieve")}])
          /\ Continue(r, [request[r] EXCEPT !.phase = "tools", !.hits = hits,
                                            !.sequence = NextStep(r)])
    /\ UNCHANGED <<ask, stored>>

\* The clock is read when the prompt asks for the time.
UseTools(r) ==
    LET clock == "clock" \in agents[ask[r].agent].tools /\ ask[r].timely IN
    /\ request[r].phase = "tools"
    /\ Write(r, IF clock THEN [pending[r] EXCEPT !.steps = @ \cup {Record(r, "tool")}]
                ELSE pending[r])
    /\ Continue(r, [request[r] EXCEPT !.phase = "compose",
                                      !.sequence = IF clock THEN NextStep(r) ELSE @])
    /\ UNCHANGED <<ask, stored>>

\* The gateway completes the prompt: a step, a checkpoint and an output ...
Compose(r) ==
    /\ request[r].phase = "compose"
    /\ Write(r, [pending[r] EXCEPT
                    !.steps = @ \cup {Record(r, "compose")},
                    !.checkpoints = @ \cup {[run |-> r, step |-> NextStep(r)]},
                    !.run = [@ EXCEPT !.status = "completed", !.step_count = NextStep(r),
                                      !.citations = request[r].hits]])
    /\ Continue(r, [request[r] EXCEPT !.phase = "ready", !.sequence = NextStep(r)])
    /\ UNCHANGED <<ask, stored>>

\* ... or answers an error, and the step it did not take is counted.
ComposeFails(r) ==
    /\ request[r].phase = "compose"
    /\ Write(r, [pending[r] EXCEPT
                    !.run = [@ EXCEPT !.status = "failed", !.step_count = NextStep(r),
                                      !.citations = request[r].hits]])
    /\ Continue(r, [request[r] EXCEPT !.phase = "ready", !.sequence = NextStep(r)])
    /\ UNCHANGED <<ask, stored>>

\* create_agent: nobody looks whether the slug is taken, or whose the bases are.
CheckSlug(r) ==
    /\ Starts(r, {"create_agent"})
    /\ IF ask[r].name \in Slugs
       THEN Continue(r, [Blank EXCEPT !.phase = "insert"]) /\ UNCHANGED pending
       ELSE Rollback(r, "refused")
    /\ UNCHANGED <<ask, stored>>

InsertAgent(r) ==
    /\ ask[r].kind = "create_agent" /\ request[r].phase = "insert"
    /\ ~Waits(r)
    /\ IF \E a \in Requests : agents[a].org = ask[r].org /\ agents[a].slug = ask[r].name
       THEN Rollback(r, "failed")
       ELSE /\ Write(r, [Nothing EXCEPT !.agent =
                           [org |-> ask[r].org, slug |-> ask[r].name, status |-> "draft",
                            shelf |-> ask[r].shelf, tools |-> ask[r].tools]])
            /\ Continue(r, [request[r] EXCEPT !.phase = "ready"])
    /\ UNCHANGED <<ask, stored>>

publish(r) ==
    /\ Starts(r, {"publish"})
    /\ IF get_agent(r, ask[r].agent)
       THEN /\ Write(r, [Nothing EXCEPT !.publishes = TRUE])
            /\ Continue(r, [Blank EXCEPT !.phase = "ready"])
       ELSE Rollback(r, "refused")
    /\ UNCHANGED <<ask, stored>>

-----------------------------------------------------------------------------
\* The client has its answer; the transaction commits, all of it at once.
Commit(r) ==
    LET rows == pending[r] IN
    /\ request[r].phase = "ready"
    /\ bases' = [b \in Requests |->
                    IF b = r /\ rows.base # NoBase THEN rows.base
                    ELSE IF b = ask[r].base /\ rows.count > 0
                    THEN [bases[b] EXCEPT !.document_count = rows.count]
                    ELSE bases[b]]
    /\ documents' = documents \cup rows.documents
    /\ chunks' = chunks \cup rows.chunks
    /\ citations' = citations \cup rows.citations
    /\ agents' = [a \in Requests |->
                    IF a = r /\ rows.agent # NoAgent THEN rows.agent
                    ELSE IF a = ask[r].agent /\ rows.publishes
                    THEN [agents[a] EXCEPT !.status = "published"]
                    ELSE agents[a]]
    /\ runs' = [runs EXCEPT ![r] = IF rows.run # NoRun THEN rows.run ELSE @]
    /\ steps' = steps \cup rows.steps
    /\ checkpoints' = checkpoints \cup rows.checkpoints
    /\ Rollback(r, "done")
    /\ UNCHANGED ask

\* A statement, the gateway's client or the instance fails: all of it is undone.
Abort(r) ==
    /\ "database" \in Disturbances
    /\ r \in UnderWay
    /\ Rollback(r, "failed")
    /\ UNCHANGED <<ask, stored>>

\* PostgreSQL fails a statement of a cycle of waiting (after deadlock_timeout).
BreakDeadlock(r) ==
    /\ \E cycle \in SUBSET {q \in Requests : Waits(q)} :
          /\ r \in cycle
          /\ \A q \in cycle : /\ \E p \in cycle : WaitsFor(q, p)
                              /\ \E p \in cycle : WaitsFor(p, q)
    /\ Rollback(r, "failed")
    /\ UNCHANGED <<ask, stored>>

-----------------------------------------------------------------------------
Init ==
    /\ ask \in Workloads
    /\ bases = [r \in Requests |-> NoBase]
    /\ documents = {} /\ chunks = {} /\ citations = {}
    /\ agents = [r \in Requests |-> NoAgent]
    /\ runs = [r \in Requests |-> NoRun]
    /\ steps = {} /\ checkpoints = {}
    /\ request = [r \in Requests |-> Blank]
    /\ pending = [r \in Requests |-> Nothing]

Opens(r) ==
    \/ FindName(r) \/ FindBase(r) \/ StartSearch(r) \/ StartChat(r) \/ StartRun(r)
    \/ CheckSlug(r) \/ publish(r)
Goes(r) ==
    \/ InsertBase(r) \/ CheckFile(r) \/ InsertDocument(r) \/ StoreChunks(r)
    \/ CountDocument(r)
    \/ SearchVectors(r) \/ SearchWords(r) \/ AnswerSearch(r) \/ persist_citations(r)
    \/ Retrieve(r) \/ UseTools(r) \/ Compose(r) \/ ComposeFails(r)
    \/ InsertAgent(r) \/ Commit(r) \/ BreakDeadlock(r)

Next == \E r \in Requests : Opens(r) \/ Goes(r) \/ Abort(r)

Spec == Init /\ [][Next]_libraryVars

\* The event loop runs what can run, the gateway and the database answer within
\* their timeouts, and the database looks for deadlocks.
FairSpec == Spec /\ WF_libraryVars(\E r \in Requests : Goes(r))

-----------------------------------------------------------------------------
(***************************************************************************)
(* Every stored document is whole and counted once: it is ready, has the   *)
(* chunks its text is cut into, one to a sequence number and all of its    *)
(* own base and organization; no base holds a text twice; and a base's     *)
(* document_count is the number of its documents, however many requests    *)
(* upload the same files at once and whichever of them fail.               *)
(* (KnowledgeService.ingest)                                               *)
(***************************************************************************)
ChunksOf(d) == {c \in chunks : c.document = d.id}
DocumentsOf(b) == {d \in documents : d.base = b}

WholeDocument(d) ==
    /\ d.status = "ready"
    /\ ChunksOf(d) = {[document |-> d.id, base |-> d.base, org |-> d.org,
                       sequence |-> i, content |-> PiecesOf[d.body][i]] :
                         i \in 1 .. d.chunk_count}
    /\ d.chunk_count = Len(PiecesOf[d.body])
    /\ bases[d.base].org = d.org

WholeDocuments ==
    /\ \A d \in documents : WholeDocument(d)
    /\ \A d, e \in documents : d.base = e.base /\ d.body = e.body => d = e
    /\ \A b \in Requests : bases[b].document_count = Cardinality(DocumentsOf(b))

(***************************************************************************)
(* Citations can be followed, at home: what a message, a run or a search   *)
(* under way cites is a chunk that is stored, of its own organization, and *)
(* of a document and a base of that organization, whoever's bases an agent *)
(* was made with, and whatever was being ingested, or was undone, while it *)
(* was retrieved; and no more are cited than the limits allow.             *)
(* (architecture.md:355: "similarity search under RLS")                    *)
(***************************************************************************)
FromShelf(some, org) ==
    \A c \in some :
       /\ c \in chunks /\ c.org = org /\ bases[c.base].org = org
       /\ \E d \in documents : d.id = c.document /\ d.base = c.base

CitesOwnShelf ==
    /\ \A c \in citations : FromShelf({c.chunk}, c.org)
    /\ \A m \in Requests : Cardinality({c \in citations : c.message = m})
                              <= CHAT_RETRIEVE_LIMIT
    /\ \A r \in Requests : /\ FromShelf(request[r].hits, ask[r].org)
                           /\ FromShelf(runs[r].citations, runs[r].org)
                           /\ Cardinality(runs[r].citations) <= RUN_LIMIT

(***************************************************************************)
(* A stored run tells what it did: it has ended; its steps are numbered    *)
(* without a gap from one, retrieval only first and composing only last; a *)
(* completed run has all the steps it counts and a checkpoint at the last, *)
(* a failed one counts the step that failed; and without a run there is no *)
(* step and no checkpoint.  (AgentService.run)                             *)
(***************************************************************************)
StepsOf(r) == {s \in steps : s.run = r}
CheckpointsOf(r) == {c \in checkpoints : c.run = r}

RunsTellTheirSteps ==
    \A r \in Requests :
       LET run == runs[r]
           last == IF run.status = "completed" THEN run.step_count ELSE run.step_count - 1
       IN  IF run.org = None THEN StepsOf(r) = {} /\ CheckpointsOf(r) = {}
           ELSE /\ run.status # "running"
                /\ \A i \in 1 .. last : \E s \in StepsOf(r) : s.sequence = i
                /\ Cardinality(StepsOf(r)) = last
                /\ \A s \in StepsOf(r) :
                      /\ s.node = "retrieve" => s.sequence = 1
                      /\ s.node = "compose" <=>
                            run.status = "completed" /\ s.sequence = last
                /\ CheckpointsOf(r) =
                      IF run.status = "completed" THEN {[run |-> r, step |-> last]} ELSE {}
                /\ run.citations # {} =>
                      \E s \in StepsOf(r) : s.node = "retrieve"

(***************************************************************************)
(* Every request ends: those that write the same base, slug or document    *)
(* wait for one another, two uploads even in a circle, but not for ever.   *)
(***************************************************************************)
EveryLibraryRequestEnds ==
    UnderWay # {} ~> UnderWay = {}

=============================================================================
