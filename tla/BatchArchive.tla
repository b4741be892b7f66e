----------------------------- MODULE BatchArchive -----------------------------
(***************************************************************************)
(* A batch of images comes as a ZIP archive and its videos leave as one    *)
(* that is shaped like it: every folder becomes a folder, every image the  *)
(* video made of it.  The cuts of a page are sent under the paths they     *)
(* have, likewise.  The question is an archive, or a selection of cuts,    *)
(* and what became of its images; the answer is what is sent.              *)
(***************************************************************************)
EXTENDS Naturals, Sequences, FiniteSets, SequencesExt

CONSTANT MaxImages                          \* MAX_IMAGE_COUNT

VARIABLES
    upload,         \* what is sent of, the images in it, its name, the fate of each, the order of their tasks
    sent            \* what was imported and what was sent

vars == <<upload, sent>>

(* Paths of images in the order of their names.  A stem is a name and the  *)
(* number after it, as in "x-1", if any.                                   *)
Image(dir, stem, suffix) == [dir |-> dir, stem |-> stem, suffix |-> suffix]
Images == << Image(<<"a">>, <<"x", 1>>, "png"), Image(<<"a">>, <<"x">>, "jpg"), Image(<<"a">>, <<"x">>, "png"),
             Image(<<>>, <<"x", 1>>, "png"), Image(<<>>, <<"x">>, "jpg"), Image(<<>>, <<"x">>, "png") >>
Others == {"macos", "text", "outside", "encrypted"}
Fates  == {"done", "failed", "gone"}        \* gone: done, but its file is no more

(* Only images count; a member that points outside, or is encrypted, stops *)
(* the whole import.                                                       *)
Members  == SelectSeq(Images, LAMBDA m : m \in upload.images)
Imported ==
    IF upload.others \cap {"outside", "encrypted"} # {} \/ Members = <<>> \/ Len(Members) > MaxImages
    THEN <<>> ELSE Members

TopLevels == {m.dir : m \in ToSet(Imported)}
SourceDir == IF Cardinality(TopLevels) = 1 /\ <<>> \notin TopLevels THEN (CHOOSE d \in TopLevels : TRUE)[1] ELSE upload.name

(* The first folder is left out if it is the source directory of a batch;  *)
(* what was an image is a video.                                           *)
Folder_Any(m) == IF m.dir # <<>> THEN Tail(m.dir) ELSE m.dir
Folder(m) == IF m.dir # <<>> /\ m.dir[1] = SourceDir THEN Tail(m.dir) ELSE m.dir
VideoAt(m) == <<Folder(m), "mp4">>
(* A cut keeps its path: cuts of jobs before a change may share it.        *)
CutAt(m) == <<m.dir, "png">>

(* The first free number, if the name is taken.                            *)
Named(m, used) ==
    LET at == IF upload.of = "batch" THEN VideoAt(m) ELSE CutAt(m)
        name(k) == <<at, IF k = 0 THEN m.stem ELSE Append(m.stem, k)>>
    IN  name(CHOOSE k \in 0..Cardinality(used) : /\ name(k) \notin used
                                                 /\ \A j \in 0..(k - 1) : name(j) \in used)

(* The completed tasks in order, each with its entry; what cannot be read  *)
(* any more is skipped after it has taken its name.                        *)
Fate(m)   == upload.fate[m]
Completed == SelectSeq(IF upload.reversed THEN Reverse(Imported) ELSE Imported, LAMBDA m : Fate(m) # "failed")
Collected ==
    FoldLeft(LAMBDA got, m : Append(got, [image |-> m, entry |-> Named(m, {e.entry : e \in ToSet(got)})]), <<>>, Completed)
Resolved  == SelectSeq(Collected, LAMBDA e : Fate(e.image) = "done")

Sent == [imported |-> Imported, entries |-> Resolved, skipped |-> Len(Collected) - Len(Resolved)]

(* Nothing is sent if there is nothing to send.                            *)
Download == upload.of = "batch" /\ Resolved # <<>> /\ sent' = Sent /\ UNCHANGED upload
Pack     == upload.of = "cuts" /\ Resolved # <<>> /\ sent' = Sent /\ UNCHANGED upload

(* Up to three images and whatever became of them, or one too many.        *)
Init ==
    /\ \E images \in UNION {kSubset(k, ToSet(Images)) : k \in 0..4}, others \in {{}} \cup {{o} : o \in Others} :
       \E fate \in [images -> IF Cardinality(images) = 4 THEN {"done"} ELSE Fates],
          name \in {"a", "z"}, reversed \in BOOLEAN, of \in {"batch", "cuts"} :
           /\ others = {} \/ Cardinality(images) <= 1
           /\ of = "cuts" => others = {} /\ name = "z" /\ ~reversed /\ Cardinality(images) <= MaxImages
           /\ upload = [of |-> of, images |-> images, others |-> others, fate |-> fate, name |-> name, reversed |-> reversed]
    /\ sent = <<>>
Next == sent = <<>> /\ (Download \/ Pack)

-----------------------------------------------------------------------------
(* The archive that is sent has one entry for every file that was made and *)
(* is still there, no two of one name, and the rest is counted.  Two files *)
(* lie in one folder if their images did: unless a batch's archive has the *)
(* name of a folder in it and images beside that folder, for then the      *)
(* folder is taken for the source directory and left out.                  *)
Misnamed ==
    /\ upload.of = "batch"
    /\ {<<upload.name>>, <<>>} \subseteq {m.dir : m \in ToSet(sent.imported)}
ArchiveShaped ==
    sent # <<>> =>
        LET E == ToSet(sent.entries)
        IN  /\ {e.image : e \in E} = {m \in ToSet(sent.imported) : Fate(m) = "done"}
            /\ Len(sent.entries) = Cardinality({e.entry : e \in E})
            /\ sent.skipped = Cardinality({m \in ToSet(sent.imported) : Fate(m) = "gone"})
            /\ ~Misnamed => \A e, f \in E : e.entry[1] = f.entry[1] <=> e.image.dir = f.image.dir
=============================================================================
