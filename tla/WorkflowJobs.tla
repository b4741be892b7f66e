---------------------------- MODULE WorkflowJobs ----------------------------
(***************************************************************************)
(* The jobs that WorkflowPatch is checked with: films of two and three     *)
(* segments in every file order, pairs of nodes that share pictures or     *)
(* read none, single nodes with and without links; uploads in and out of   *)
(* order, too few, too many, with one file name; sizes in both tiers that  *)
(* fit, do not, or are missing.                                            *)
(***************************************************************************)
EXTENDS WorkflowPatch

Pictures == <<"l1", "l2", "l3", "l4">>
Uploads  == <<"u1", "u2", "u3", "u4">>
Texts    == <<"p1", "p2", "p3">>

Size(w, h) == [w |-> w, h |-> h]
Usual == Size(832, 480)
Node(wan, start, end, refs, positive, size) ==
    [wan |-> wan, start |-> start, end |-> end, refs |-> refs, positive |-> positive, size |-> size, length |-> MaxFrames]
File(nodes, loads) ==
    [nodes |-> nodes, loads |-> loads, samplers |-> <<[noise |-> TRUE, seedAt |-> "s1"], [noise |-> FALSE, seedAt |-> "s2"]>>]

(* The k-th segment of the film is the node q[k] of the file.              *)
Film(q, wan, texts) ==
    LET At(i) == CHOOSE k \in 1..Len(q) : q[k] = i
    IN  File([i \in 1..Len(q) |-> Node(i \in wan, Pictures[At(i)], Pictures[At(i) + 1], <<>>, texts[i], Usual)],
             SubSeq(Pictures, 1, Len(q) + 1))
Films == {Film(q, 1..2, texts) : q \in SetToSeqs(1..2), texts \in {Texts, <<"p1", "p1">>}}
         \cup {Film(q, {1}, Texts) : q \in SetToSeqs(1..3)}
Pairs == {File(<<Node(TRUE, a, b, <<>>, "p1", Usual), Node(TRUE, c, d, <<>>, "p2", Usual)>>, <<"l1", "l2", "l3">>) :
             a \in {None, "l1"}, b \in {None, "l2"}, c \in {None, "l1", "l3"}, d \in {None, "l2", "l3"}}
Singles == {File(<<Node(wan, a, b, refs, "p1", size)>>, <<"l1", "l2">>) :
             wan \in BOOLEAN, a \in {None, "l1"}, b \in {None, "l2"}, refs \in {<<>>, <<"l2", "l1">>},
             size \in {NoSize, Usual, Size(1280, 720)}}

Given(n) == [i \in 1..n |-> [index |-> i, upload |-> Uploads[i]]]
Keyframes ==
    UNION {{Given(n), Append(Reverse(Given(n)), [index |-> n + 1, upload |-> None])} : n \in 1..4}
    \cup {<<[index |-> 1, upload |-> "u1"], [index |-> 1, upload |-> "u2"]>>}
OwnNames  == [u \in Range(Uploads) |-> u]
OneName   == [OwnNames EXCEPT !["u2"] = "u1"]

Job(workflow, keyframes, file, segments, tier, seed, under) ==
    [workflow |-> workflow, keyframes |-> keyframes, file |-> file, segments |-> segments,
     tier |-> tier, seed |-> seed, under |-> under]
Segment(prompt, size, length) == [prompt |-> prompt, size |-> size, length |-> length]
Sizes == {NoSize, Size(-1, 8), Size(720, 1280), Size(1232, 1232), Size(1920, 1080), Size(9, 700), Size(2300, 16)}

Jobs ==
    {Job(w, k, f, <<Segment("x", Usual, 0), Segment("y", NoSize, 0), Segment("", Usual, 0)>>, "sd", 0, FALSE) :
        w \in Films \cup Pairs, k \in Keyframes, f \in {OwnNames, OneName}}
    \cup {Job(w, Given(n), OwnNames, <<Segment("x", Usual, 0)>>, "sd", 0, FALSE) : w \in Singles, n \in 1..2}
    \cup {Job(w, Given(KeyframeCount(w)), OwnNames, <<Segment("x", s, l)>>, t, 0, u) :
        w \in {x \in Singles : x.nodes[1].start # None /\ x.nodes[1].refs = <<>>},
        s \in Sizes, l \in {0, 49, 200}, t \in {"sd", "hd"}, u \in BOOLEAN}
    \cup {Job(w, Given(3), OwnNames, <<Segment("x", s, 49), Segment("y", r, 0)>>, t, seed, FALSE) :
        w \in Films, s \in Sizes, r \in {NoSize, Size(512, 512)}, t \in {"sd", "hd"}, seed \in {0, 5}}

Init == job \in Jobs /\ sent = Unsent
=============================================================================
