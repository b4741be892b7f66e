--------------------------- MODULE WorkflowPatch ---------------------------
(***************************************************************************)
(* How a job's payload becomes the workflow that is sent to the provider   *)
(* (prepare_workflow_for_job): the segments of the workflow are read from  *)
(* its links, the uploads are put into the image nodes the segments read,  *)
(* prompts and settings into the nodes of each segment, every Wan node is  *)
(* brought under the generation policy, and all samplers that make noise   *)
(* get one seed.                                                           *)
(*                                                                         *)
(* A workflow is the sequence of its video nodes in file order.  A node    *)
(* names the LoadImage nodes it reads (start, end, and refs in the order   *)
(* the code reads the others), the text nodes of its prompts and its size  *)
(* and length.  Samplers are those of the whole file: ids with a colon are *)
(* refused for every job that gets this far.                               *)
(***************************************************************************)
EXTENDS Integers, FiniteSetsExt, SequencesExt

VARIABLES
    job,        \* the payload and the workflow it names
    sent        \* what is submitted, or why nothing is

None      == "none"
NoSize    == [w |-> 0, h |-> 0]
Positive(size) == size.w > 0 /\ size.h > 0
Multiple  == 16
MaxFrames == 81
MaxTotal  == 162
Budget(tier) == IF tier = "hd" THEN 921600 ELSE 409600

Distinct(s) == FoldLeft(LAMBDA a, x : IF x = None \/ x \in Range(a) THEN a ELSE Append(a, x), <<>>, s)

-----------------------------------------------------------------------------
(* Reading the workflow.                                                   *)

Segments_FileOrder(nodes) == IF Len(nodes) <= 1 THEN <<>> ELSE [i \in 1..Len(nodes) |-> i]

(* The order of the segments: from the one that starts on a picture no     *)
(* other ends on, each followed by the first that starts where it ends     *)
(* (two that read no picture there count as linked).                       *)
Segments(nodes) ==
    LET Pos    == 1..Len(nodes)
        ends   == {nodes[i].end : i \in Pos} \ {None}
        starts == {i \in Pos : nodes[i].start \notin ends}
        Follow(order, k) ==
            LET next == {i \in Pos \ Range(order) : nodes[i].start = nodes[Last(order)].end}
            IN  IF next = {} THEN order ELSE Append(order, Min(next))
        Rest(order) == SelectSeq([i \in Pos |-> i], LAMBDA i : i \notin Range(order))
        chain  == FoldLeft(Follow, <<Min(starts)>>, Tail([i \in Pos |-> i]))
    IN  CASE Len(nodes) <= 1         -> <<>>
          [] Cardinality(starts) # 1 -> [i \in Pos |-> i]
          [] OTHER                   -> chain \o Rest(chain)

Ordered(nodes) == IF Len(nodes) = 1 THEN <<1>> ELSE Segments(nodes)

LinkedImages(nodes) == Distinct(FlattenSeq([i \in 1..Len(nodes) |-> <<nodes[i].start, nodes[i].end>> \o nodes[i].refs]))

SegmentImages(nodes) ==
    LET order == Segments(nodes)
    IN  Distinct(FlattenSeq([i \in 1..Len(order) |-> <<nodes[order[i]].start, nodes[order[i]].end>>]))

(* The image nodes in the order of the keyframes; a file without a linked  *)
(* one takes the LoadImage nodes as they come.                             *)
KeyframeNodes(w) ==
    IF SegmentImages(w.nodes) # <<>> THEN SegmentImages(w.nodes)
    ELSE IF LinkedImages(w.nodes) # <<>> THEN LinkedImages(w.nodes)
    ELSE w.loads

(* With several segments only what they start and end on is counted.       *)
KeyframeCount(w) ==
    IF Segments(w.nodes) # <<>> THEN Len(SegmentImages(w.nodes)) ELSE Len(KeyframeNodes(w))

(* What the screen of the workflow says of each segment's pictures.        *)
SchemaIndexes(w) ==
    LET n == Len(Segments(w.nodes))
        dual == \E i \in 1..Len(w.nodes) : w.nodes[i].start # None /\ w.nodes[i].end # None
    IN  IF n > 0 THEN [i \in 1..n |-> [start |-> i, end |-> i + 1]]
        ELSE <<[start |-> 1, end |-> IF dual THEN 2 ELSE 0]>>

-----------------------------------------------------------------------------
(* Reading the payload.                                                    *)

Uploaded(j) == SelectSeq(j.keyframes, LAMBDA k : k.upload # None)

InputsGiven(j) ==
    LET required == KeyframeCount(j.workflow)
    IN  /\ required >= 1
        /\ Len(Uploaded(j)) = required
        /\ {k.index : k \in Range(Uploaded(j))} = 1..required

InOrder(keyframes) == SortSeq(keyframes, LAMBDA a, b : a.index < b.index)

(* The pictures sent along, named as the files were uploaded.              *)
RunpodImages(j) == [i \in 1..Len(Uploaded(j)) |-> j.file[InOrder(Uploaded(j))[i].upload]]

(* The pairs of slot and picture the request remembers.                    *)
SnapshotImages(j) ==
    LET all == InOrder(j.keyframes)
    IN  {[slot |-> all[i].index, upload |-> all[i].upload, file |-> RunpodImages(j)[i]] :
            i \in {k \in 1..Len(all) : all[k].upload # None}}

-----------------------------------------------------------------------------
(* Patching.                                                               *)

ImagesApplied(j) ==
    LET slots == KeyframeNodes(j.workflow)
        names == RunpodImages(j)
    IN  [l \in Range(j.workflow.loads) |->
            IF \E i \in 1..Min({Len(slots), Len(names)}) : slots[i] = l
            THEN names[CHOOSE i \in 1..Len(slots) : slots[i] = l] ELSE "default"]

(* A prompt that is not blank is written to its segment's text node; a     *)
(* node of two segments keeps the later text.                              *)
PromptsApplied(j) ==
    LET order == Ordered(j.workflow.nodes)
        Texts == {n.positive : n \in Range(j.workflow.nodes)} \ {None}
        Writers(t) == {i \in 1..Len(order) : /\ j.workflow.nodes[order[i]].positive = t
                                             /\ i <= Len(j.segments) /\ j.segments[i].prompt # ""}
    IN  [t \in Texts |-> IF Writers(t) = {} THEN "default" ELSE j.segments[Max(Writers(t))].prompt]

(* A source that is over the tier's pixels is scaled down in its shape,    *)
(* both sides are cut to multiples of 16 (the largest whose square is      *)
(* within the side's), and the longer one further while the product is     *)
(* still over: at most MaxCuts times for the sizes used here.  The scale   *)
(* is a double: a side that comes to a multiple of 16 may land under it.   *)
MaxCuts == 8

FitWanSize(size, j) ==
    LET b == Budget(j.tier)
        Steps(square) == CHOOSE k \in 0..160 : k * k * 256 <= square /\ square < (k + 1) * (k + 1) * 256
        Scaled(side, other) ==
            IF size.w * size.h <= b THEN side \div Multiple
            ELSE LET k == Steps((b * side) \div other)
                 IN  IF j.under /\ k * k * 256 * other = b * side THEN k - 1 ELSE k
        Cut(side, other) == Multiple * Max({1, Scaled(side, other)})
        Shrink(s, i) == CASE s.w * s.h <= b -> s
                          [] s.w * s.h > b /\ s.w >= s.h -> [s EXCEPT !.w = @ - Multiple]
                          [] OTHER -> [s EXCEPT !.h = @ - Multiple]
    IN  FoldLeft(Shrink, [w |-> Cut(size.w, size.h), h |-> Cut(size.h, size.w)], [i \in 1..MaxCuts |-> i])

(* The parameter file has, for every segment in the order of Segments, the *)
(* size of its node where the workflow holds one and takes it from no link.*)
(* Pairs of a segment of the payload and the node its size is written to.  *)
SizeTargets(j) ==
    {<<k, Ordered(j.workflow.nodes)[k]>> : k \in 1..Min({Len(j.workflow.nodes), Len(j.segments)})}
        \ {p \in (1..Len(j.segments)) \X (1..Len(j.workflow.nodes)) : j.workflow.nodes[p[2]].size = NoSize}

(* A size that is left out keeps the file's; one that is not positive ends *)
(* the job.                                                                *)
SizesPositive(j) == \A p \in SizeTargets(j) : j.segments[p[1]].size # NoSize => Positive(j.segments[p[1]].size)

(* A Wan node gets the size its segment asks for fitted, another as it is. *)
NodeConfigApplied(j) ==
    LET nodes == j.workflow.nodes IN
    [i \in 1..Len(nodes) |->
        LET asked == {j.segments[p[1]].size : p \in {q \in SizeTargets(j) : q[2] = i}} \ {NoSize} IN
        IF asked = {} THEN nodes[i]
        ELSE LET size == CHOOSE s \in asked : TRUE
             IN  [nodes[i] EXCEPT !.size = IF nodes[i].wan THEN FitWanSize(size, j) ELSE size]]

(* Every Wan node takes the size of the first segment and, alone in its    *)
(* file, the length that segment asks for, else the longest there is.      *)
WanPolicyApplied(j, nodes) ==
    LET first == j.segments[1]
        alone == Cardinality({i \in 1..Len(nodes) : nodes[i].wan}) = 1
        sized == first.size # NoSize /\ Positive(first.size)
        length == IF alone /\ first.length # 0 THEN Max({1, Min({MaxFrames, first.length})}) ELSE MaxFrames
    IN  [i \in 1..Len(nodes) |->
            IF ~nodes[i].wan THEN nodes[i]
            ELSE [nodes[i] EXCEPT !.length = length,
                                  !.size = IF sized THEN FitWanSize(first.size, j) ELSE @]]

(* What is refused: a size that comes from a link, is not of multiples of  *)
(* 16 or over the tier's pixels, and more frames in all than allowed.      *)
GenerationAllowed(j, nodes) ==
    LET wan == {i \in 1..Len(nodes) : nodes[i].wan}
    IN  /\ \A i \in wan : LET s == nodes[i].size
                          IN  s # NoSize /\ Positive(s) /\ s.w % Multiple = 0 /\ s.h % Multiple = 0 /\ s.w * s.h <= Budget(j.tier)
        /\ MapThenSumSet(LAMBDA i : nodes[i].length, wan) <= MaxTotal

(* One seed, the queued one if the task has it, for the nodes from which   *)
(* samplers that add noise take theirs.                                    *)
SeedsApplied(j) ==
    LET seed == IF j.seed = 0 THEN "drawn" ELSE "queued"
        noisy == {s.seedAt : s \in {x \in Range(j.workflow.samplers) : x.noise}}
    IN  [n \in {s.seedAt : s \in Range(j.workflow.samplers)} |-> IF n \in noisy THEN seed ELSE "default"]

Refused(why) == [refused |-> why]
Unsent == Refused("not yet")

Prepare ==
    /\ sent = Unsent
    /\ UNCHANGED job
    /\ LET nodes == WanPolicyApplied(job, NodeConfigApplied(job)) IN
       sent' = IF ~InputsGiven(job) THEN Refused("images")
               ELSE IF ~SizesPositive(job) THEN Refused("size")
               ELSE IF ~GenerationAllowed(job, nodes) THEN Refused("policy")
               ELSE [refused |-> None, images |-> ImagesApplied(job), prompts |-> PromptsApplied(job), nodes |-> nodes,
                     seeds |-> SeedsApplied(job), snapshot |-> SnapshotImages(job)]

TypeOK == sent.refused \in {"not yet", None, "images", "size", "policy"}

-----------------------------------------------------------------------------
Submitted == sent.refused = None

(* The orders in which the segments of a workflow make one film: each      *)
(* starts on the picture the one before ends on, all pictures differ.      *)
Runs(nodes) ==
    {q \in SetToSeqs(1..Len(nodes)) :
        LET pictures == <<nodes[q[1]].start>> \o [k \in 1..Len(nodes) |-> nodes[q[k]].end]
        IN  /\ IsInjective(pictures) /\ None \notin Range(pictures)
            /\ \A k \in 1..(Len(nodes) - 1) : nodes[q[k]].end = nodes[q[k + 1]].start}

(* Whatever the order of the nodes in the workflow file, a submitted job   *)
(* has an upload in every picture its segments start or end on, each in    *)
(* one place, and where the segments make one film the pictures and the    *)
(* prompts stand where the screen showed them; the pairs the request       *)
(* remembers are those sent.  (Two uploads of one file name are one        *)
(* picture to the worker, and segments may share a text node: then only    *)
(* the later text is used.)                                                *)
InputsInPlace ==
    Submitted /\ IsInjective(job.file) =>
        LET nodes == job.workflow.nodes
            Picture(k) == job.file[(CHOOSE f \in Range(Uploaded(job)) : f.index = k).upload]
        IN  /\ \A n \in Range(nodes) : \A l \in {n.start, n.end} \ {None} : sent.images[l] # "default"
            /\ \A f \in Range(Uploaded(job)) :
                    Cardinality({l \in DOMAIN sent.images : sent.images[l] = job.file[f.upload]}) = 1
            /\ \A p \in sent.snapshot : p.file = job.file[p.upload]
            /\ \A q \in Runs(nodes) : \A k \in 1..Len(nodes) :
                    /\ sent.images[nodes[q[k]].start] = Picture(SchemaIndexes(job.workflow)[k].start)
                    /\ sent.images[nodes[q[k]].end] = Picture(SchemaIndexes(job.workflow)[k].end)
                    /\ (job.segments[k].prompt # "" /\ IsInjective([i \in 1..Len(nodes) |-> nodes[i].positive]))
                          => sent.prompts[nodes[q[k]].positive] = job.segments[k].prompt

(* A job of at most two Wan nodes whose first segment has a size is never  *)
(* refused by the policy it was just brought under, all its Wan nodes then *)
(* have one size, and neither side is longer than asked (but one step is   *)
(* the least).                                                             *)
PolicyMet ==
    Positive(job.segments[1].size) /\ Cardinality({n \in Range(job.workflow.nodes) : n.wan}) <= 2 =>
        /\ sent.refused # "policy"
        /\ Submitted => LET sizes == {n.size : n \in {m \in Range(sent.nodes) : m.wan}} IN
                        /\ Cardinality(sizes) <= 1
                        /\ \A s \in sizes : /\ s.w <= Max({Multiple, job.segments[1].size.w})
                                            /\ s.h <= Max({Multiple, job.segments[1].size.h})
=============================================================================
