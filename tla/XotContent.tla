------------------------------ MODULE XotContent ------------------------------
(***************************************************************************)
(* What xot promises the holder of a document: a container holds a sequence *)
(* of markup and pieces of text.  There are no text nodes here, so nothing *)
(* is merged or freed behind a caller's back: a segment, which is one      *)
(* element, one comment or a longest run of text, is moved, taken out,     *)
(* wrapped or deleted as a whole.  XotTree implements this module.         *)
(***************************************************************************)
EXTENDS Integers, SequencesExt

CONSTANTS Documents, Elements, Others, Pieces

Container == Documents \cup Elements
Item      == Elements \cup Others \cup Pieces

VARIABLES
    content,     \* content[c]: the sequence of items in the container c
    loose,       \* the segments that are in no container
    used         \* the items and documents that were ever created

cvars == <<content, loose, used>>

-----------------------------------------------------------------------------
\* s may be cut behind its first k items: no cut goes through a run of text.
Cuts(s) == {k \in 0 .. Len(s) : k \in 1 .. Len(s) - 1 =>
                                    ~({s[k], s[k + 1]} \subseteq Pieces)}

\* The segments of s: what is between two cuts next to each other.
SegmentsOf(s) ==
    {SubSeq(s, b[1] + 1, b[2]) : b \in {c \in Cuts(s) \X Cuts(s) :
        c[1] < c[2] /\ \A k \in Cuts(s) : k <= c[1] \/ k >= c[2]}}

Segments == loose \cup UNION {SegmentsOf(content[c]) : c \in Container}

\* The containers that are in the segment, or below it.
Inside(seg) ==
    LET within[i \in 0 .. Cardinality(Elements)] ==
            IF i = 0 THEN ToSet(seg) \cap Elements
            ELSE within[i - 1] \cup
                 (UNION {ToSet(content[e]) : e \in within[i - 1]} \cap Elements)
    IN within[Cardinality(Elements)]

Without(s, seg) == SelectSeq(s, LAMBDA x : x \notin ToSet(seg))

Out(seg) == [c \in Container |-> Without(content[c], seg)]

PutAt(s, k, seg) == SubSeq(s, 1, k) \o seg \o SubSeq(s, k + 1, Len(s))

\* s with the segment old replaced by new.
Swap(s, old, new) ==
    IF \E k \in DOMAIN s : s[k] = Head(old)
    THEN LET k == CHOOSE k \in DOMAIN s : s[k] = Head(old)
         IN PutAt(Without(s, old), k - 1, new)
    ELSE s

-----------------------------------------------------------------------------
Init ==
    /\ content = [c \in Container |-> <<>>]
    /\ loose = {}
    /\ used = {}

Create == \E x \in (Documents \cup Item) \ used :
    /\ used' = used \cup {x}
    /\ loose' = loose \cup ({<<x>>} \ {<<d>> : d \in Documents})
    /\ UNCHANGED content

CreateIn == \E x \in Item \ used, c \in used \cap Container :
    /\ \E k \in Cuts(content[c]) :
          content' = [content EXCEPT ![c] = PutAt(@, k, <<x>>)]
    /\ used' = used \cup {x}
    /\ UNCHANGED loose

\* A new container takes a segment: an element stands where the segment was.
CreateAround == \E c \in Container \ used, seg \in Segments :
    LET stays == IF c \in Elements THEN <<c>> ELSE <<>>
    IN /\ content' = [[b \in Container |-> Swap(content[b], seg, stays)]
                         EXCEPT ![c] = seg]
       /\ loose' = IF seg \in loose
                   THEN (loose \ {seg}) \cup ({stays} \ {<<>>}) ELSE loose
       /\ used' = used \cup {c}

Move == \E seg \in Segments, c \in used \cap Container :
    /\ c \notin Inside(seg)
    /\ \E k \in Cuts(Without(content[c], seg)) :
          content' = [Out(seg) EXCEPT ![c] = PutAt(@, k, seg)]
    /\ loose' = loose \ {seg}
    /\ UNCHANGED used

TakeOut == \E seg \in Segments \ loose :
    /\ content' = Out(seg)
    /\ loose' = loose \cup {seg}
    /\ UNCHANGED used

\* A segment or a document goes for good, with all below it.
Delete == \E seg \in Segments \cup {<<d>> : d \in used \cap Documents} :
    LET below == Inside(seg)
                 \cup UNION {Inside(content[d]) : d \in ToSet(seg) \cap Documents}
                 \cup (ToSet(seg) \cap Documents)
    IN /\ content' = [c \in Container |-> IF c \in below THEN <<>>
                                          ELSE Without(content[c], seg)]
       /\ loose' = loose \ {seg}
       /\ UNCHANGED used

\* The content of an element takes its place.
Unwrap == \E e \in used \cap Elements :
    /\ <<e>> \in Segments
    /\ <<e>> \in loose => content[e] = <<>> \/ content[e] \in SegmentsOf(content[e])
    /\ content' = [c \in Container |-> IF c = e THEN <<>>
                                       ELSE Swap(content[c], <<e>>, content[e])]
    /\ loose' = IF <<e>> \in loose
                THEN (loose \ {<<e>>}) \cup ({content[e]} \ {<<>>}) ELSE loose
    /\ UNCHANGED used

\* A segment takes the place of another, which goes for good.
Replace == \E old \in Segments \ loose, new \in Segments :
    /\ old # new
    /\ ToSet(new) \cap (ToSet(old) \cup UNION {ToSet(content[c]) : c \in Inside(old)}) = {}
    /\ content' = [c \in Container |-> IF c \in Inside(old) THEN <<>>
                     ELSE Swap(Without(content[c], new), old, new)]
    /\ loose' = loose \ {new}
    /\ UNCHANGED used

\* s with the text behind e put before it, when there is text on both sides.
Joined(s, e) ==
    IF \E k \in 2 .. Len(s) - 1 : s[k] = e /\ {s[k - 1], s[k + 1]} \subseteq Pieces
    THEN LET k == CHOOSE k \in DOMAIN s : s[k] = e
             b == CHOOSE b \in SegmentsOf(s) : Head(b) = s[k + 1]
         IN Swap(Without(s, b), <<e>>, b \o <<e>>)
    ELSE s

\* An element is not moved below itself; the refused call has already joined
\* the texts around it.  A refused replace has also deleted the old node.
Refuse == \E e \in used \cap Elements, old \in Segments \cup {<<>>} :
    /\ <<e>> \in Segments
    /\ old # <<>> => \E c \in Inside(<<e>>) : old \in SegmentsOf(content[c])
    /\ content' = [c \in Container |-> IF c \in Inside(old) THEN <<>>
                                       ELSE Joined(Without(content[c], old), e)]
    /\ UNCHANGED <<loose, used>>

Next == Create \/ CreateIn \/ CreateAround \/ Move \/ TakeOut \/ Delete
        \/ Unwrap \/ Replace \/ Refuse

Spec == Init /\ [][Next]_cvars
=============================================================================
