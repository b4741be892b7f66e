----------------------------- MODULE Vocabulary -----------------------------
(***************************************************************************)
(* The words that a prompt is put together from: terms, linked to          *)
(* categories of a group.  Admins save and remove them; a save reads its   *)
(* rows first and writes, at its commit, only the columns it changes.  A   *)
(* scene is made of the terms a user selects, of those that they imply,    *)
(* and no more of a category than it takes.                                *)
(***************************************************************************)
EXTENDS Naturals, FiniteSets

CONSTANTS Editor, MaxChanges                \* the saves under way at once; a bound on saves and removals

VARIABLES
    words,      \* the rows: the group, its categories, the terms, and the links of both; how often changed
    editor      \* per save: what it saves, and what it has read

vars == <<words, editor>>

\* Numbered in their sort order.  Those of the example catalogue are known.
Category == {1, 2}
Term     == {1, 2, 3}
Seeded   == {<<1, 1>>, <<2, 2>>, <<1, 3>>}
Required == {1}
Implies  == {<<1, 2>>}
Excludes == {<<3, 2>>}

States == {"none", "on", "off"}
TypeOK ==
    /\ words \in [group : BOOLEAN, cat : [Category -> States], single : [Category -> BOOLEAN],
                  stray : SUBSET Category, term : [Term -> States], link : [Category \X Term -> States],
                  changes : 0..MaxChanges]
    /\ DOMAIN editor = Editor

Idle == [saves |-> "nothing"]

-----------------------------------------------------------------------------
(* The catalogue, and the scene of a selection.                            *)

Offered == {l \in Category \X Term : /\ words.group /\ words.cat[l[1]] = "on"
                                     /\ words.link[l] = "on" /\ words.term[l[2]] = "on"}

(* The category that a term counts for: the first that has a link to it.   *)
CategoriesOf(t) == {c \in Category : words.link[<<c, t>>] = "on" /\ words.cat[c] = "on"}
CategoryOf(t)   == IF CategoriesOf(t) = {} THEN 0 ELSE CHOOSE c \in CategoriesOf(t) : \A d \in CategoriesOf(t) : c <= d
Limit(c)        == IF words.single[c] THEN 1 ELSE Cardinality(Term)
Of(c, terms)    == {t \in terms : CategoryOf(t) = c}

Trimmed(terms) == {t \in terms : \/ CategoryOf(t) = 0
                                 \/ Cardinality({u \in Of(CategoryOf(t), terms) : u < t}) < Limit(CategoryOf(t))}
Missing(terms) == {c \in Required : words.cat[c] = "on" /\ Of(c, terms) = {}}
Implied(terms) == terms \cup {t \in Term : words.term[t] = "on" /\ \E s \in terms : <<s, t>> \in Implies}

Known(selected)   == Trimmed({t \in selected : words.term[t] = "on"})
Scene_TrimmedOnce(selected) == Implied(Known(selected))
Scene(selected)   == Trimmed(Implied(Known(selected)))
Conflicts(selected) == {e \in Excludes : e[1] \in Known(selected) /\ e[2] \in Known(selected)}
Warned(selected)    == Missing(Known(selected)) \cup Missing(Scene(selected))

-----------------------------------------------------------------------------
(* The admins.                                                             *)

Changed         == [words EXCEPT !.changes = @ + 1]
Begins(e, save) == /\ editor[e] = Idle /\ editor' = [editor EXCEPT ![e] = save]
                   /\ words' = Changed
Ends(e)         == editor' = [editor EXCEPT ![e] = Idle]

(* A row that was not there is inserted, unless somebody else has done so: *)
(* then the save fails.  One that was read as removed is put on again; one *)
(* that was read as on is left as it is by now.                            *)
Clashes(read, now)   == read = "none" /\ now # "none"
Written(read, now)   == IF read = "on" THEN now ELSE "on"

ReadsCategory(e) == \E c \in Category, s \in BOOLEAN :
    /\ words.group
    /\ Begins(e, [saves |-> "category", cat |-> c, single |-> s, was |-> words.cat[c], wasSingle |-> words.single[c]])
WritesCategory(e) ==
    LET save == editor[e]
        c    == save.cat
    IN  /\ save.saves = "category"
        /\ Ends(e)
        /\ words' = IF Clashes(save.was, words.cat[c]) THEN words
                    ELSE [words EXCEPT !.cat[c] = Written(save.was, @),
                                       !.single[c] = IF save.was # "none" /\ save.single = save.wasSingle THEN @ ELSE save.single,
                                       !.stray = IF words.group THEN @ ELSE @ \cup {c}]

ReadsTerm(e) == \E c \in Category, t \in Term :
    /\ words.cat[c] = "on"
    /\ Begins(e, [saves |-> "term", cat |-> c, term |-> t, was |-> words.term[t], wasLink |-> words.link[<<c, t>>]])
WritesTerm(e) ==
    LET save == editor[e]
        l    == <<save.cat, save.term>>
    IN  /\ save.saves = "term"
        /\ Ends(e)
        /\ words' = IF Clashes(save.was, words.term[l[2]]) \/ Clashes(save.wasLink, words.link[l]) THEN words
                    ELSE [words EXCEPT !.term[l[2]] = Written(save.was, @), !.link[l] = Written(save.wasLink, @)]

(* A group that is saved stands again; one that stands is no other by it.  *)
SavesGroup == ~words.group /\ words' = [Changed EXCEPT !.group = TRUE] /\ UNCHANGED editor

Unlinked(links) == [l \in Category \X Term |-> IF l \in links /\ words.link[l] # "none" THEN "off" ELSE words.link[l]]
LinksOf(c)      == {c} \X Term
Off(state)      == IF state = "none" THEN "none" ELSE "off"

(* With a group go its categories and their links, and with a category its *)
(* links and every term that has ever been linked to it.                   *)
RemovesGroup ==
    /\ words' = [Changed EXCEPT !.group = FALSE, !.cat = [c \in Category |-> Off(@[c])], !.stray = {},
                              !.link = Unlinked(Category \X Term)]
    /\ UNCHANGED editor
RemovesCategory == \E c \in Category :
    /\ words.cat[c] # "none"
    /\ words' = [Changed EXCEPT !.cat[c] = "off", !.stray = @ \ {c}, !.link = Unlinked(LinksOf(c)),
                              !.term = [t \in Term |-> IF words.link[<<c, t>>] = "none" THEN @[t] ELSE "off"]]
    /\ UNCHANGED editor
RemovesTerm == \E t \in Term :
    /\ words.term[t] # "none"
    /\ words' = [Changed EXCEPT !.term[t] = "off", !.link = Unlinked(Category \X {t})]
    /\ UNCHANGED editor

(* The example catalogue, as a first start or one without a group loads it. *)
Example(link, n) == [group |-> TRUE, cat |-> [c \in Category |-> "on"], single |-> [c \in Category |-> c = 1], stray |-> {},
                  term |-> [t \in Term |-> "on"],
                  link |-> [l \in Category \X Term |-> IF l \in Seeded THEN "on" ELSE link[l]],
                  changes |-> n]
Restarts ==
    /\ ~words.group
    /\ words' = Example(words.link, words.changes)
    /\ editor' = [e \in Editor |-> Idle]

Init ==
    /\ words = Example([l \in Category \X Term |-> "none"], 0)
    /\ editor = [e \in Editor |-> Idle]

Next ==
    \/ \E e \in Editor : WritesCategory(e) \/ WritesTerm(e)
    \/ /\ words.changes < MaxChanges
       /\ \/ \E e \in Editor : ReadsCategory(e) \/ ReadsTerm(e)
          \/ SavesGroup \/ RemovesGroup \/ RemovesCategory \/ RemovesTerm
    \/ Restarts

-----------------------------------------------------------------------------
(* Whatever admins have made of the catalogue, a scene takes no more of a  *)
(* category than its limit, implied terms included; a term that is offered *)
(* and selected is left out only for others of its category; a required    *)
(* category without a term is reported; and so are two selected terms that *)
(* exclude each other.                                                     *)
SceneInLimits == \A selected \in SUBSET Term :
    LET scene == Scene(selected)
    IN  /\ \A c \in Category : Cardinality(Of(c, scene)) <= Limit(c)
        /\ \A l \in Offered : l[2] \in selected \ scene =>
               Cardinality(Of(CategoryOf(l[2]), scene)) = Limit(CategoryOf(l[2]))
        /\ Missing(scene) \subseteq Warned(selected)
        /\ \A x \in Excludes : {x[1], x[2]} \subseteq scene \cap selected => x \in Conflicts(selected)

(* A category stands under a removed group, where nobody can select of it  *)
(* what may be required, only if its save overlapped the removal.          *)
CategoriesHaveGroups == \A c \in Category : words.cat[c] = "on" /\ ~words.group => c \in words.stray
=============================================================================
