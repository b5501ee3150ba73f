----------------------------- MODULE MCLibrary ------------------------------
(***************************************************************************)
(* Workloads of Library for TLC: the requests that race with one another,  *)
(* after those that make the bases and agents they are about; and the      *)
(* texts on which the cutting into chunks is compared with what it is for. *)
(***************************************************************************)
EXTENDS Library

CONSTANTS r1, r2, r3, r4, r5, r6, o1, o2, n1, n2

\* A long text of two chunks, a short one, and none.
long == <<<<2, 1, 3>>>>
short == <<<<1>>>>
blank == <<>>
MCBodies == {long, short, blank}

Plain(kind, org) ==
    [kind |-> kind, org |-> org, name |-> None, base |-> r1, files |-> <<>>,
     agent |-> r2, shelf |-> {}, tools |-> {}, timely |-> FALSE]
Found(org, name) == [Plain("create_base", org) EXCEPT !.name = name]
Ingest(org, body) == [Plain("ingest", org) EXCEPT !.files = <<body>>]
Upload(org, files) == [Plain("upload", org) EXCEPT !.files = files]
Hire(org, name, shelf, tools) ==
    [Plain("create_agent", org) EXCEPT !.name = name, !.shelf = shelf, !.tools = tools]
RunAgent(org, timely) == [Plain("run", org) EXCEPT !.timely = timely]

Work(a1, a2, a3, a4, a5, a6) ==
    (r1 :> a1) @@ (r2 :> a2) @@ (r3 :> a3) @@ (r4 :> a4) @@ (r5 :> a5) @@ (r6 :> a6)

MCWorkloads ==
    {Work(Found(o1, n1), Found(o1, n1), Upload(o1, <<long, short>>),
          Upload(o1, <<short, blank, long>>), Ingest(o1, long), Plain("search", o1)),
     Work(Found(o1, n1), Upload(o1, <<blank>>), Upload(o1, <<long, short, long>>),
          Ingest(o1, short), Plain("chat", o1), Ingest(o1, blank)),
     Work(Found(o1, n1), Hire(o1, n1, {r1, r3}, NATIVE_TOOLS), Found(o1, n2),
          Ingest(o1, long), [Ingest(o1, short) EXCEPT !.base = r3], RunAgent(o1, TRUE)),
     Work(Found(o1, n1), Hire(o1, n1, {r1}, {"knowledge_search"}), Upload(o1, <<short, long>>),
          Plain("publish", o1), RunAgent(o1, FALSE), RunAgent(o1, TRUE)),
     Work(Found(o1, n1), Hire(o2, n1, {r1, r4}, {"knowledge_search"}), Ingest(o1, long),
          Found(o2, n1), RunAgent(o2, FALSE), [Ingest(o2, short) EXCEPT !.base = r4]),
     Work(Found(o1, n1), Hire(o1, n2, {}, {"clock"}), Hire(o1, n1, {}, {"clock"}),
          Hire(o1, n1, {}, {}), [RunAgent(o1, TRUE) EXCEPT !.agent = r3],
          [Plain("publish", o2) EXCEPT !.agent = r3]),
     Work(Found(o1, n1), [Ingest(o2, short) EXCEPT !.base = r5], Ingest(o1, short),
          Plain("chat", o2), Found(o2, n1), Plain("search", o2))}

\* Every text of up to two paragraphs of up to three words.
Words == UNION {[1 .. n -> 1 .. 5] : n \in 1 .. 3}
SmallTexts == {<<>>} \cup {<<p>> : p \in Words} \cup {<<p, q>> : p, q \in Words}

ASSUME CuttingIsClean == \A body \in SmallTexts : CutsCleanly(body)

=============================================================================
