---------------------------- MODULE BlockGrammar ----------------------------
(***************************************************************************)
(* The text of a rule file that sources and the user share, and the two    *)
(* edits maxims makes of it (src/rulefile/block.ts): a block is spliced in *)
(* (replaceBlock) or taken out (stripBlock).                               *)
(*                                                                         *)
(* A text is a sequence of lines, each closed by a line ending.  A marker  *)
(* line carries the key of its source, numbered in the order of spelling;  *)
(* the begin marker also carries what the source renders (its revision).   *)
(* A fence, a comment or an HTML block of the user's swallows the lines up *)
(* to its end, markers included.  No line is inside a list or a quote.     *)
(***************************************************************************)
EXTENDS Naturals, Sequences, SequencesExt, TLC

Line(kind, of, rev) == [kind |-> kind, of |-> of, rev |-> rev]

UserLine(u) == Line("user", u, 0)

Blank == Line("blank", 0, 0)

BeginMark(key, rev) == Line("begin", key, rev)

EndMark(key) == Line("end", key, 0)

\* A begin marker of another version of the grammar.
ForeignMark == Line("foreign", 0, 0)

\* What stands for a text where there is none.
Absent == <<Line("absent", 0, 0)>>     \* no file
Refused == <<Line("refused", 0, 0)>>   \* a strip the grammar refuses
Emptied == <<Line("emptied", 0, 0)>>   \* a strip that leaves a blank text

Markers == {"begin", "end", "foreign"}

IsBlank(text) == \A i \in DOMAIN text : text[i] = Blank

\* The block of a source: rev rule lines between its markers.
RenderBlock(key, rev) ==
    <<BeginMark(key, rev)>> \o [i \in 1..rev |-> Line("rule", key, rev)]
        \o <<EndMark(key)>>

----------------------------------------------------------------------------
(* What a line opens: a block of Markdown that swallows lines *)

Fence == Line("fence", 0, 0)             \* its end is spelled the same
Comment == Line("comment", 0, 0)         \* a comment that ends on a later line
CommentEnd == Line("uncomment", 0, 0)
Tag == Line("tag", 0, 0)                 \* an HTML block, up to a blank line

Openers == {Fence, Comment, Tag}

NoLeaf == Line("no leaf", 0, 0)

\* Whether a line ends the open block.  A marker is a comment of one line, and
\* so ends the comment it stands in.
Closes(leaf, line) ==
    CASE leaf = Fence -> line = Fence
      [] leaf = Comment -> line = CommentEnd \/ line.kind \in Markers
      [] leaf = Tag -> line = Blank

\* The block open behind a line.
ScanLine(leaf, line) ==
    CASE leaf = NoLeaf -> IF line \in Openers THEN line ELSE NoLeaf
      [] leaf # NoLeaf -> IF Closes(leaf, line) THEN NoLeaf ELSE leaf

\* The block open in front of each line, and behind the last one.
Leaves(text) ==
    FoldLeft(LAMBDA leaves, line : Append(leaves, ScanLine(Last(leaves), line)),
             <<NoLeaf>>, text)

\* The text with the lines a block swallows read as the user's.
Seen(text) ==
    LET Outer(leaves) ==
            [i \in DOMAIN text |-> IF leaves[i] = NoLeaf THEN text[i] ELSE UserLine(0)]
    IN IF \E i \in DOMAIN text : text[i] \in Openers THEN Outer(Leaves(text)) ELSE text

\* Seeded fault: what is open at the end stays open.
LeftOpen(leaf) == <<>>

\* What ends the block a text leaves open: an HTML block ends at the blank
\* line an added block stands behind.
CloserFor(leaf) ==
    CASE leaf = Fence -> <<Fence>>
      [] leaf = Comment -> <<CommentEnd>>
      [] OTHER -> <<>>

\* The text once what it leaves open is closed.
Closed(text) == text \o CloserFor(Last(Leaves(text)))

----------------------------------------------------------------------------
(* Reading *)

IsForeign(text) == ForeignMark \in ToSet(Seen(text))

\* A begin marker pairs with the very next marker, when that is its own end.
Pairs(text) ==
    {<<i, j>> \in (DOMAIN text) \X (DOMAIN text) :
        /\ i < j
        /\ text[i].kind = "begin"
        /\ text[j] = EndMark(text[i].of)
        /\ \A k \in (i + 1)..(j - 1) : text[k].kind \notin Markers}

\* Every pair in document order, a duplicated source's later pairs included.
BlockSpans(text) == SetToSortSeq(Pairs(Seen(text)), LAMBDA p, q : p[1] < q[1])

\* The block in a slot.
Occupant(key, text) == [key |-> key, text |-> text]

\* What stands in each slot.  (The concatenations here and below make TLC
\* evaluate the lines of a text once.)
OccupantsAt(text, spans) ==
    <<>> \o [n \in DOMAIN spans |->
        Occupant(text[spans[n][1]].of, SubSeq(text, spans[n][1], spans[n][2]))]

Occupants(text) == OccupantsAt(text, BlockSpans(text))

\* The place of the pair the parser keeps for a source, 0 for none.
SlotOf(occupants, key) == SelectInSeq(occupants, LAMBDA o : o.key = key)

\* The sources with a block, in document order, each once.
BlockKeys(text) ==
    LET Kept(occupants) ==
            SelectSeq([i \in DOMAIN occupants |-> <<i, occupants[i].key>>],
                      LAMBDA o : SlotOf(occupants, o[2]) = o[1])
        KeysOf(kept) == [i \in DOMAIN kept |-> kept[i][2]]
    IN KeysOf(Kept(Occupants(text)))

\* The lines outside every block, but for the blank ones.
Outside(text) ==
    LET Lone(spans) ==
            SelectSeq([i \in DOMAIN text |-> i],
                      LAMBDA i : /\ text[i] # Blank
                                 /\ \A n \in DOMAIN spans :
                                        i < spans[n][1] \/ i > spans[n][2])
        LinesAt(places) == [i \in DOMAIN places |-> text[places[i]]]
    IN LinesAt(Lone(BlockSpans(text)))

----------------------------------------------------------------------------
(* Dealing blocks into slots *)

\* By the key of the source; two blocks of one source keep their order.
DealOrder(contents) ==
    LET Arranged(order) == <<>> \o [i \in DOMAIN order |-> contents[order[i]]]
    IN Arranged(SortSeq([i \in DOMAIN contents |-> i],
                    LAMBDA i, j : \/ contents[i].key < contents[j].key
                                  \/ contents[i].key = contents[j].key /\ i < j))

\* The user's lines in front of each slot, and those behind the last one.
GapsAt(text, spans) ==
    <<>> \o [i \in 1..(Len(spans) + 1) |->
        SubSeq(text, IF i = 1 THEN 1 ELSE spans[i - 1][2] + 1,
                     IF i > Len(spans) THEN Len(text) ELSE spans[i][1] - 1)]

\* Seeded fault: closing a slot leaves the blank line an add put in front.
JoinedKeepingBlank(gaps, closed) ==
    SubSeq(gaps, 1, closed - 1) \o <<gaps[closed] \o gaps[closed + 1]>>
        \o SubSeq(gaps, closed + 2, Len(gaps))

\* What a closed slot leaves of the gaps around it: one of them, when the other is the
\* blank line that set the block apart, else both, less a blank line of the
\* front that ran up to the block.
Seam(front, behind, isFirst, isLast) ==
    IF ~isFirst /\ front = <<Blank>> THEN behind
    ELSE IF ~isLast /\ behind = <<Blank>> THEN front
    ELSE IF /\ Len(front) >= 2 /\ front[Len(front)] = Blank
            /\ IF behind = <<>> THEN isLast ELSE Head(behind) = Blank
    THEN SubSeq(front, 1, Len(front) - 1) \o behind
    ELSE front \o behind

\* The gaps once a slot is closed: the one in front of it joins the one behind.
Joined(gaps, closed) ==
    SubSeq(gaps, 1, closed - 1)
        \o <<Seam(gaps[closed], gaps[closed + 1], closed = 1, closed + 1 = Len(gaps))>>
        \o SubSeq(gaps, closed + 2, Len(gaps))

\* The blocks dealt into the gaps, one behind each but the last.
Deal(gaps, dealt) ==
    FlattenSeq([i \in DOMAIN dealt |-> gaps[i] \o dealt[i].text]) \o gaps[Len(gaps)]

\* A block in a slot of its own, behind the last one.
Appended(gaps, occupants, own) ==
    Deal(SubSeq(gaps, 1, Len(occupants)) \o <<<<Blank>>, gaps[Len(gaps)]>>,
         DealOrder(Append(occupants, own)))

\* A block over the one in a slot.
Replaced(gaps, occupants, slot, own) ==
    Deal(gaps, DealOrder([occupants EXCEPT ![slot] = own]))

\* The block of the source over the one it has, or in a slot of its own: at
\* the end of a text without blocks, out of what that leaves open, else behind
\* the last slot.
PutBlock(text, spans, occupants, own) ==
    CASE text = <<>> -> own.text
      [] text # <<>> /\ spans = <<>> -> Closed(text) \o <<Blank>> \o own.text
      [] SlotOf(occupants, own.key) # 0 ->
             Replaced(GapsAt(text, spans), occupants, SlotOf(occupants, own.key), own)
      [] OTHER -> Appended(GapsAt(text, spans), occupants, own)

ReplaceBlock(text, key, rev) ==
    LET Over(spans) == PutBlock(text, spans, OccupantsAt(text, spans),
                                Occupant(key, RenderBlock(key, rev)))
    IN Over(BlockSpans(text))

----------------------------------------------------------------------------
(* Taking a block out *)

\* Seeded fault: the text is not read back.
UncheckedStrip(gaps, kept, closed) == TRUE

\* Closing a slot may pair a begin and an end marker the user left around it.
\* It counts when the next pair behind the joined gap is the block dealt
\* there, or when there is no pair for the last slot (exposedBy).
ReadsBackAsKept(gaps, kept, closed) ==
    LET rest == Deal(SubSeq(gaps, closed, Len(gaps)), SubSeq(kept, closed, Len(kept)))
        Placed(spans) ==
            IF closed > Len(kept) THEN spans = <<>>
            ELSE /\ spans # <<>>
                 /\ spans[1] = <<Len(gaps[closed]) + 1,
                                 Len(gaps[closed]) + Len(kept[closed].text)>>
    IN Placed(BlockSpans(rest))

\* The slots to close, in the order they are tried: the last one first, for an
\* add opened it.
Closings(n, own) == <<n, own>> \o [i \in 1..n |-> i]

\* The first closing that counts, or Refused.
CloseSlot(gaps, kept, closings) ==
    LET Close(left, closed) ==
            IF left # Refused THEN left
            ELSE LET After(joined) == IF ReadsBackAsKept(joined, kept, closed)
                                      THEN Deal(joined, kept) ELSE Refused
                 IN After(Joined(gaps, closed))
    IN FoldLeft(Close, Refused, closings)

StripBlock(text, key) ==
    LET Without(spans, occupants, own) ==
            IF own = 0 THEN text
            ELSE CloseSlot(GapsAt(text, spans), DealOrder(RemoveAt(occupants, own)),
                           Closings(Len(occupants), own))
        From(spans, occupants) == Without(spans, occupants, SlotOf(occupants, key))
        Of(spans) == From(spans, OccupantsAt(text, spans))
    IN Of(BlockSpans(text))

\* One block after the other out of the text the one before left, up to a
\* refusal or a blank text.
StripAll(text, keys) ==
    LET Unless(left, after) == IF after # left /\ IsBlank(after) THEN Emptied ELSE after
        Strip(left, key) == IF left \in {Refused, Emptied} THEN left
                            ELSE Unless(left, StripBlock(left, key))
    IN FoldLeft(Strip, text, keys)

=============================================================================
