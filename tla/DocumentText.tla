----------------------------- MODULE DocumentText -----------------------------
(* The text of a document and its division: chunks and the bounded context of a model's
   call, sections, paragraphs and the map from an offset back to them (pdf_pipeline.rs),
   the slice of a section and the template of a prompt (pdf_agent_v4.rs).

   A text is a sequence of characters, of which the code tells apart
     n  the end of a line     f  the end of a page      s  a space
     h1, h2  a number of one and of two parts that may begin the line of a heading
     a  a letter of one byte  u  a letter of two bytes
   Offsets are counted in bytes, as strings are indexed. *)
EXTENDS Integers, Sequences, FiniteSets, SequencesExt, Functions

CONSTANTS
  Papers,          \* texts the documents have
  ChunkChars,      \* DEFAULT_TEXT_CHUNK_CHARS
  ContextChars,    \* MAX_LLM_CONTEXT_CHARS
  SectionChars,    \* the characters of a section a call may have
  ParagraphBytes   \* the bytes a paragraph has at least

ASSUME TextAssumption == {ChunkChars, ContextChars, SectionChars, ParagraphBytes} \subseteq Nat \ {0}

VARIABLES paper,    \* the document at hand
          structure \* what is built of it

textVars == <<paper, structure>>

Blanks == {"n", "f", "s"}
Heads == {"h1", "h2"}

-----------------------------------------------------------------------------
(* Strings *)

Width(char) == IF char = "u" THEN 2 ELSE 1

\* Bytes of the first n characters, for every n.
Offsets(text) ==
  LET at[n \in 0 .. Len(text)] == IF n = 0 THEN 0 ELSE at[n - 1] + Width(text[n]) IN at

Bytes(text) == Offsets(text)[Len(text)]

\* The first n characters, or all of them.
Take(text, n) == SubSeq(text, 1, IF n > Len(text) THEN Len(text) ELSE n)

\* How many blank characters a text begins with.
LeadingBlanks(text) ==
  CHOOSE n \in 0 .. Len(text) :
    /\ \A m \in 1 .. n : text[m] \in Blanks
    /\ n = Len(text) \/ text[n + 1] \notin Blanks

Trimmed(text) ==
  LET left == SubSeq(text, LeadingBlanks(text) + 1, Len(text))
  IN SubSeq(left, 1, Len(left) - LeadingBlanks(Reverse(left)))

-----------------------------------------------------------------------------
(* Chunks *)

\* A chunk ends behind the last end of a line or page within its size, else at its size.
ChunkEnd(text, start) ==
  LET hard == IF start + ChunkChars > Len(text) THEN Len(text) ELSE start + ChunkChars
      breaks == {n \in start + 1 .. hard : text[n] \in {"n", "f"}}
  IN IF hard = Len(text) \/ breaks = {} THEN hard
     ELSE CHOOSE n \in breaks : \A m \in breaks : m <= n

\* Mutant: the character at the end of a chunk begins the next one too.
NextChunkOverlaps(end, start) == IF end - 1 > start THEN end - 1 ELSE end

NextChunk(end, start) == IF end > start + 1 THEN end ELSE start + 1

\* chunk_text: what is blank between two chunks is in none.
ChunkText(text) ==
  LET at == Offsets(text)
      from[start \in 0 .. Len(text)] ==
        IF start = Len(text) THEN <<>>
        ELSE LET end == ChunkEnd(text, start)
                 chunk == Trimmed(SubSeq(text, start + 1, end))
                 here == [first |-> at[start], last |-> at[end], text |-> chunk]
             IN (IF chunk = <<>> THEN <<>> ELSE <<here>>) \o from[NextChunk(end, start)]
  IN from[0]

\* bounded_llm_context: the chunks of the prompt, the last one cut to what is left.
BoundedContext(chunks) ==
  LET used[n \in 0 .. Len(chunks)] == IF n = 0 THEN 0 ELSE used[n - 1] + Len(chunks[n].text)
      taken == {n \in DOMAIN chunks : used[n - 1] < ContextChars}
  IN [n \in taken |-> Take(chunks[n].text, ContextChars - used[n - 1])]

-----------------------------------------------------------------------------
(* Sections and paragraphs *)

LineStarts(text) == {0} \union {n \in DOMAIN text : text[n] = "n"}

BlankBetween(text, from, to) == \A n \in from + 1 .. to : text[n] \in Blanks

\* The end of the heading whose number is character n: its line, and the blank
\* characters after it up to the last end of a line among them.
HeadingEnd(text, n) ==
  LET ends == {m \in n .. Len(text) : m = Len(text) \/ text[m + 1] = "n"}
      line == CHOOSE m \in ends : \A k \in ends : m <= k
      all == {m \in ends : BlankBetween(text, line, m)}
  IN CHOOSE m \in all : \A k \in all : k <= m

\* The headings found from character `from` on, each with the character it begins at:
\* the first line of those before it that are blank.
HeadingsFrom(text) ==
  LET starts(from, n) == {p \in LineStarts(text) : p >= from /\ p < n /\ BlankBetween(text, p, n - 1)}
      found[from \in 0 .. Len(text) + 1] ==
        LET numbers == {n \in from + 1 .. Len(text) : text[n] \in Heads /\ starts(from, n) # {}}
        IN IF numbers = {} THEN <<>>
           ELSE LET n == CHOOSE n \in numbers : \A m \in numbers : n <= m
                    p == CHOOSE p \in starts(from, n) : \A q \in starts(from, n) : p <= q
                IN <<[begins |-> p, level |-> IF text[n] = "h1" THEN 1 ELSE 2]>> \o found[HeadingEnd(text, n)]
  IN found[0]

\* Mutant: the last section ends where it begins.
LastSectionEnd(text, begins) == begins

SectionEnd(text, begins) == Bytes(text)

\* The section above: the nearest before of a lower level, as the stack of parents has it.
ParentOf(heads, i) ==
  LET above == {p \in 1 .. i - 1 : /\ heads[p].level < heads[i].level
                                   /\ \A m \in p + 1 .. i - 1 : heads[m].level >= heads[i].level}
  IN IF above = {} THEN 0 ELSE CHOOSE p \in above : TRUE

\* detect_sections.
DetectSections(text) ==
  LET heads == HeadingsFrom(text) at == Offsets(text)
      start(i) == at[heads[i].begins]
  IN [i \in DOMAIN heads |->
        [level |-> heads[i].level, first |-> start(i), parent |-> ParentOf(heads, i),
         last |-> IF i < Len(heads) THEN start(i + 1) ELSE SectionEnd(text, start(i))]]

\* The blocks between two ends of a line in a row, as first and last character.
BlocksOf(text) ==
  LET cuts[from \in 0 .. Len(text) + 2] ==
        LET seps == {n \in from + 1 .. Len(text) - 1 : text[n] = "n" /\ text[n + 1] = "n"}
        IN IF from > Len(text) THEN <<>>
           ELSE IF seps = {} THEN <<<<from, Len(text)>>>>
           ELSE LET n == CHOOSE n \in seps : \A m \in seps : n <= m
                IN <<<<from, n - 1>>>> \o cuts[n + 1]
  IN cuts[0]

\* detect_paragraphs: a block that is long enough, in the last section that spans its
\* beginning, 0 when there is none.
DetectParagraphs(text, sections) ==
  LET at == Offsets(text)
      kept == SelectSeq(BlocksOf(text),
                LAMBDA b : Bytes(Trimmed(SubSeq(text, b[1] + 1, b[2]))) >= ParagraphBytes)
      home(offset) == {i \in DOMAIN sections : sections[i].first <= offset /\ offset < sections[i].last}
  IN [p \in DOMAIN kept |->
        LET offset == at[kept[p][1]] IN
        [first |-> offset, last |-> at[kept[p][2]],
         section |-> IF home(offset) = {} THEN 0
                     ELSE CHOOSE i \in home(offset) : \A j \in home(offset) : j <= i]]

\* Pages, by the bytes before each.
PageStarts(text) ==
  LET at == Offsets(text) IN <<0>> \o SetToSortSeq({at[n] : n \in {m \in DOMAIN text : text[m] = "f"}}, <)

-----------------------------------------------------------------------------
(* The document that is built, and from an offset back: DocumentMap *)

BuildStructuredDocument(text) ==
  LET sections == DetectSections(text)
  IN [offsets |-> Offsets(text), chunks |-> ChunkText(text), sections |-> sections,
      paragraphs |-> DetectParagraphs(text, sections), pages |-> PageStarts(text)]

NoAnchor == [paragraph |-> 0, page |-> 0]

\* resolve: the last paragraph that begins at or before the offset, when it ends after it.
Resolve(map, offset) ==
  LET before == {p \in DOMAIN map.paragraphs : map.paragraphs[p].first <= offset}
      last == Cardinality(before)
  IN IF before = {} \/ offset >= map.paragraphs[last].last THEN NoAnchor
     ELSE [paragraph |-> last,
           page |-> Cardinality({g \in DOMAIN map.pages : map.pages[g] <= offset})]

\* resolve_range.
ResolveRange(map, first, last) ==
  LET from[offset \in 0 .. last] ==
        IF offset >= last THEN <<>>
        ELSE LET anchor == Resolve(map, offset)
                 ends == map.paragraphs[anchor.paragraph].last
             IN IF anchor = NoAnchor THEN from[offset + 1]
                ELSE <<anchor.paragraph>> \o from[IF ends < last THEN ends ELSE last]
  IN from[first]

\* section_text takes offsets for numbers of characters.
SectionText(text, first, last) ==
  LET length == last - first
  IN Take(SubSeq(text, first + 1, Len(text)), IF length > SectionChars THEN SectionChars ELSE length)

-----------------------------------------------------------------------------
TextInit == paper = <<>> /\ structure = <<>>

OpenPaper ==
  /\ paper = <<>> /\ paper' \in Papers
  /\ structure' = BuildStructuredDocument(paper')

TextNext == OpenPaper

-----------------------------------------------------------------------------
\* Nothing of a text is lost or told twice when it is cut: the chunks are in order, none
\* is longer than the limit or overlaps another, and between them only blanks are left.
ChunksCoverText ==
  LET chunks == structure.chunks
      said == FoldLeft(LAMBDA all, chunk : all \o chunk.text, <<>>, chunks)
      Solid(text) == SelectSeq(text, LAMBDA char : char \notin Blanks)
  IN /\ Solid(said) = Solid(paper)
     /\ \A n \in DOMAIN chunks : Len(chunks[n].text) <= ChunkChars
     /\ \A n \in 1 .. Len(chunks) - 1 : chunks[n].last <= chunks[n + 1].first

\* A context is bounded and is the beginning of the text; what it leaves out did not fit.
ContextBounded ==
  LET context == BoundedContext(structure.chunks) chunks == structure.chunks
      total[n \in 0 .. Len(chunks)] ==
        IF n = 0 THEN 0 ELSE total[n - 1] + (IF n \in DOMAIN context THEN Len(context[n]) ELSE 0)
  IN /\ total[Len(chunks)] <= ContextChars
     /\ DOMAIN context = 1 .. Cardinality(DOMAIN context)
     /\ \A n \in DOMAIN chunks :
          (IF n \in DOMAIN context THEN context[n] ELSE <<>>) # chunks[n].text => total[Len(chunks)] = ContextChars

\* The sections follow one another up to the end of the text, and a section's parent is
\* of a lower level and before it, with only deeper ones in between.
SectionsInOrder ==
  LET sections == structure.sections
  IN \A i \in DOMAIN sections :
       /\ sections[i].first < sections[i].last
       /\ sections[i].last = IF i = Len(sections) THEN structure.offsets[Len(paper)] ELSE sections[i + 1].first
       /\ sections[i].parent # 0 =>
            \A m \in sections[i].parent + 1 .. i : sections[sections[i].parent].level < sections[m].level

\* An offset leads back to the paragraph it is in and to its page, and to none when it is
\* in none; a range leads to each paragraph it meets, once and in order.
AnchorsLeadBack ==
  LET paragraphs == structure.paragraphs at == structure.offsets
      Meets(p, first, last) == paragraphs[p].first < last /\ first < paragraphs[p].last
  IN /\ \A n \in 0 .. Len(paper) - 1 :
          LET anchor == Resolve(structure, at[n])
          IN /\ {p \in DOMAIN paragraphs : Meets(p, at[n], at[n] + 1)} =
                  (IF anchor = NoAnchor THEN {} ELSE {anchor.paragraph})
             /\ anchor # NoAnchor =>
                  anchor.page = 1 + Cardinality({m \in 1 .. n : paper[m] = "f"})
     /\ \A first, last \in 0 .. structure.offsets[Len(paper)] : first < last =>
          ResolveRange(structure, first, last) =
            SetToSortSeq({p \in DOMAIN paragraphs : Meets(p, first, last)}, <)

\* A model is asked about a section with the section's own text, where the text has no
\* character of several bytes before its end.
SectionsAskedAsTheyAre ==
  LET sections == structure.sections at == structure.offsets
  IN \A i \in DOMAIN sections :
       (\A n \in DOMAIN paper : at[n] <= sections[i].last => paper[n] # "u") =>
         /\ IsPrefix(SectionText(paper, sections[i].first, sections[i].last),
                     SubSeq(paper, sections[i].first + 1, sections[i].last))
         /\ SectionText(paper, sections[i].first, sections[i].last) # <<>>

\* The division of a document.
TextSound ==
  paper # <<>> => /\ ChunksCoverText /\ ContextBounded /\ SectionsInOrder /\ AnchorsLeadBack
                  /\ SectionsAskedAsTheyAre
=============================================================================
