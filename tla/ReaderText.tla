----------------------------- MODULE ReaderText -----------------------------
(***************************************************************************)
(* A story as the reader shows it: its tokens, the sentences the server    *)
(* finds in them (reader/sentences.go), the pages it serves (handler/      *)
(* reader.go getStory) and the pages the browser holds (web/src/views/     *)
(* reader.tsx), one at a time or up to three that follow one another.      *)
(*                                                                         *)
(* A token is what the rules tell apart: a word, a word that ends a        *)
(* sentence (an abbreviation), an end mark, a closing mark, a space or a   *)
(* paragraph break.  Every word has a dictionary key.  Positions count     *)
(* from 1, and spans and pages name their last token.                      *)
(***************************************************************************)
EXTENDS Integers, Sequences, SequencesExt, FiniteSetsExt

CONSTANTS
    Texts,             \* sequences of tokens
    PageTargetTokens,  \* readerPageTargetTokens and
    PageMaximumTokens, \* readerPageMaximumTokens, scaled down
    MaxPageFaults      \* bound: page loads that fail

\* What a token can be; a text without tokens is served without pages and is left out.
TokenKinds == {"word", "abbreviation", "end", "closing", "space", "break"}
ASSUME TextAssumption == Texts \subseteq Seq(TokenKinds) \ {<<>>}
ASSUME PageAssumption ==
    PageTargetTokens \in Nat \ {0} /\ PageMaximumTokens \in Nat /\ PageMaximumTokens >= PageTargetTokens

VARIABLES
    text,       \* the tokens, with the sentences and the pages the server finds in them
    flow,       \* "pages" or "infinite"
    loaded,     \* the numbers of the pages the browser holds
    cursor,     \* the position of the current token
    turning,    \* the load of another page, [to, preferred, from] or NoLoad
    extending,  \* the load of one page more, [to, direction, move] or NoLoad
    replaced,   \* the pages were replaced while one page more was being loaded
    pageFaults

textVars == <<text, flow, loaded, cursor, turning, extending, replaced, pageFaults>>

NoLoad == [to |-> 0]
IsWord(t) == t \in {"word", "abbreviation"}
IsSentenceEnd(t) == t \in {"end", "abbreviation"}
Span(first, last) == [first |-> first, last |-> last]

\* A token read by SentenceSpans: the sentence that is open begins at start (0: none is);
\* after an end mark, closing marks still belong to the sentence that ended.
AfterToken(tokens, scan, i) ==
    LET t == tokens[i]
        closes == scan.closing /\ t \in {"end", "closing"}
        open == IF scan.start = 0 THEN i ELSE scan.start
    IN  CASE closes -> [scan EXCEPT !.spans[Len(scan.spans)].last = i]
          [] t = "break" ->
               [start |-> 0, closing |-> FALSE,
                spans |-> IF scan.start = 0 THEN scan.spans ELSE Append(scan.spans, Span(scan.start, i - 1))]
          [] t = "space" -> [scan EXCEPT !.closing = FALSE]
          [] IsSentenceEnd(t) /\ ~closes ->
               [start |-> 0, closing |-> TRUE, spans |-> Append(scan.spans, Span(open, i))]
          [] OTHER -> [scan EXCEPT !.start = open, !.closing = FALSE]

SentenceSpans(tokens) ==
    LET scan[i \in 0..Len(tokens)] ==
            IF i = 0 THEN [start |-> 0, closing |-> FALSE, spans |-> <<>>]
            ELSE AfterToken(tokens, scan[i - 1], i)
        all == scan[Len(tokens)]
    IN  IF all.start = 0 THEN all.spans ELSE Append(all.spans, Span(all.start, Len(tokens)))

\* storyTokenPages: a page has its target of tokens, and the rest of a sentence it would
\* break, up to the maximum.
PageEnd(length, spans, first) ==
    LET target == Min({first + PageTargetTokens - 1, length})
        broken == {s \in ToSet(spans) : s.first <= target /\ target < s.last}
    IN  IF broken = {} THEN target
        ELSE Min({(CHOOSE s \in broken : TRUE).last, first + PageMaximumTokens - 1, length})

\* The pages with one more, which begins where they end, unless they hold the whole text.
WithNextPage(pages, length, spans) ==
    LET first == IF pages = <<>> THEN 1 ELSE pages[Len(pages)].last + 1
    IN  IF first > length THEN pages ELSE Append(pages, Span(first, PageEnd(length, spans, first)))

\* A page has at least one token, so that there are no more pages than tokens.
StoryTokenPages(length, spans) ==
    LET upTo[n \in 0..length] == IF n = 0 THEN <<>> ELSE WithNextPage(upTo[n - 1], length, spans)
    IN  upTo[length]

\* getStory
Served(tokens) ==
    LET spans == SentenceSpans(tokens)
    IN  [tokens |-> tokens, spans |-> spans, pages |-> StoryTokenPages(Len(tokens), spans)]

Page(n) == text.pages[n]
HasPage(n) == n \in DOMAIN text.pages

X_BeforeEnd(position) ==
    LET later == {n \in DOMAIN text.pages : position < Page(n).last}
    IN  IF later = {} THEN Len(text.pages) ELSE Min(later)

\* storyTokenPageAt, with the last page for a position after the text.
StoryTokenPageAt(position) ==
    LET later == {n \in DOMAIN text.pages : position <= Page(n).last}
    IN  IF later = {} THEN Len(text.pages) ELSE Min(later)

\* sentenceSpansForWindow
SpansOfPage(n) == {s \in ToSet(text.spans) : s.last >= Page(n).first /\ s.first <= Page(n).last}

-----------------------------------------------------------------------------
\* The tokens of the pages that are held, and the ones a learner can select.
Tokens(pages) == UNION {Page(n).first..Page(n).last : n \in pages}
Selectable(pages) == {i \in Tokens(pages) : IsWord(text.tokens[i])}

FirstOf(S, otherwise) == IF S = {} THEN otherwise ELSE Min(S)
LastOf(S, otherwise) == IF S = {} THEN otherwise ELSE Max(S)
FirstSelectable(pages) == FirstOf(Selectable(pages), 0)
LastSelectable(pages) == LastOf(Selectable(pages), 0)

\* resolveCursorIndex: the next word from the position on, else the last one before it.
ResolveCursor(pages, position) ==
    LET words == Selectable(pages)
    IN  IF words = {} THEN Min(Tokens(pages))
        ELSE FirstOf({i \in words : i >= position}, Max(words))

\* The page of the bookmark, or of the first word (firstReaderPosition) without one.
TextInit ==
    /\ \E tokens \in Texts : text = Served(tokens)
    /\ flow = "pages"
    /\ \E bookmark \in Selectable(DOMAIN text.pages) \cup {FirstSelectable(DOMAIN text.pages)} :
         /\ loaded = {StoryTokenPageAt(bookmark)}
         /\ cursor = ResolveCursor(loaded, bookmark)
    /\ turning = NoLoad
    /\ extending = NoLoad
    /\ replaced = FALSE
    /\ pageFaults = 0

\* moveCursor inside the pages that are held, or a tap on a word.
MoveCursor(i) ==
    /\ i \in Selectable(loaded)
    /\ cursor' = i
    /\ UNCHANGED <<text, flow, loaded, turning, extending, replaced, pageFaults>>

\* The position that is asked for: the one after the window, or the one before it.
Beyond(n, direction) ==
    IF direction = 1 THEN Page(n).last + 1 ELSE Max({1, Page(n).first - 1})

\* The word the cursor goes to: the nearest one of the new page.
Nearest(n, direction) == IF direction = 1 THEN FirstSelectable({n}) ELSE LastSelectable({n})

NavigatePage(direction) ==
    /\ flow = "pages"
    /\ turning = NoLoad
    /\ \E n \in loaded :
         /\ HasPage(n + direction)
         /\ LET to == StoryTokenPageAt(Beyond(n, direction))
            IN  turning' = [to |-> to, preferred |-> Nearest(to, direction), from |-> "pages"]
    /\ UNCHANGED <<text, flow, loaded, cursor, extending, replaced, pageFaults>>

\* changeReaderFlowMode: to a scrolled text at once, back to pages with the page of the cursor.
ScrollText ==
    /\ flow = "pages"
    /\ turning = NoLoad
    /\ flow' = "infinite"
    /\ UNCHANGED <<text, loaded, cursor, turning, extending, replaced, pageFaults>>

TurnPages ==
    /\ flow = "infinite"
    /\ turning = NoLoad
    /\ flow' = "pages"
    /\ turning' = [to |-> StoryTokenPageAt(cursor), preferred |-> cursor, from |-> "infinite"]
    /\ UNCHANGED <<text, loaded, cursor, extending, replaced, pageFaults>>

\* applyStory
ApplyStory ==
    /\ turning # NoLoad
    /\ loaded' = {turning.to}
    /\ cursor' = ResolveCursor(loaded', turning.preferred)
    /\ turning' = NoLoad
    /\ replaced' = (replaced \/ extending # NoLoad)
    /\ UNCHANGED <<text, flow, extending, pageFaults>>

\* A page that cannot be loaded.  A failed way back to pages leaves the text scrolled.
TurnFails ==
    /\ turning # NoLoad
    /\ pageFaults < MaxPageFaults
    /\ pageFaults' = pageFaults + 1
    /\ turning' = NoLoad
    /\ flow' = turning.from
    /\ UNCHANGED <<text, loaded, cursor, extending, replaced>>

\* loadInfiniteStoryPage
LoadInfiniteStoryPage(direction, move) ==
    LET edge == IF direction = 1 THEN Max(loaded) ELSE Min(loaded)
    IN  /\ flow = "infinite"
        /\ extending = NoLoad
        /\ HasPage(edge + direction)
        /\ extending' = [to |-> StoryTokenPageAt(Beyond(edge, direction)), direction |-> direction, move |-> move]
        /\ UNCHANGED <<text, flow, loaded, cursor, turning, replaced, pageFaults>>

\* At most three pages are held; the one farthest from the new page goes.
Kept(pages, direction) ==
    IF Cardinality(pages) <= 3 THEN pages
    ELSE pages \ {IF direction = 1 THEN Min(pages) ELSE Max(pages)}

\* mergeLoadedStoryPages.  A page that comes after the learner went back to pages is dropped.
ExtendStory ==
    /\ extending # NoLoad
    /\ extending' = NoLoad
    /\ IF flow = "pages" THEN UNCHANGED <<loaded, cursor>>
       ELSE /\ loaded' = Kept(loaded \cup {extending.to}, extending.direction)
            /\ cursor' = ResolveCursor(loaded', IF extending.move THEN Nearest(extending.to, extending.direction)
                                                ELSE cursor)
    /\ UNCHANGED <<text, flow, turning, replaced, pageFaults>>

ExtendFails ==
    /\ extending # NoLoad
    /\ pageFaults < MaxPageFaults
    /\ pageFaults' = pageFaults + 1
    /\ extending' = NoLoad
    /\ UNCHANGED <<text, flow, loaded, cursor, turning, replaced>>

TextNext ==
    \/ \E i \in DOMAIN text.tokens : MoveCursor(i)
    \/ \E direction \in {1, -1} : NavigatePage(direction) \/ (\E move \in BOOLEAN : LoadInfiniteStoryPage(direction, move))
    \/ ScrollText \/ TurnPages \/ ApplyStory \/ TurnFails \/ ExtendStory \/ ExtendFails

TextSpec == TextInit /\ [][TextNext]_textVars

-----------------------------------------------------------------------------
\* The pages held follow one another (reader.tsx: a load that is under way while the pages
\* are replaced may leave a gap), and the cursor is on one of them, on a word if there is one.
HeldTogether ==
    /\ ~replaced => loaded = Min(loaded)..Max(loaded)
    /\ Cardinality(loaded) \in 1..3
    /\ cursor \in Tokens(loaded)
    /\ Selectable(loaded) # {} => cursor \in Selectable(loaded)

\* Every position is on the page that is served for it, where the reader finds that very
\* word again.
ResumesAtTheWord ==
    \A i \in DOMAIN text.tokens :
        /\ i \in Page(StoryTokenPageAt(i)).first..Page(StoryTokenPageAt(i)).last
        /\ IsWord(text.tokens[i]) => ResolveCursor({StoryTokenPageAt(i)}, i) = i

\* A word of a page is in exactly one of the sentences served with it, and a sentence goes on
\* on the next page only if the page had no room for it.
SentencesAreWhole ==
    \A n \in DOMAIN text.pages :
      /\ \A i \in Selectable({n}) : Cardinality({s \in SpansOfPage(n) : i \in s.first..s.last}) = 1
      /\ \A s \in SpansOfPage(n) : s.last > Page(n).last => Page(n).last - Page(n).first + 1 = PageMaximumTokens

\* However the learner turns the pages and scrolls, the reader shows a seamless stretch of
\* the text with the cursor in it, and every word with its sentence.
TextIsSeamless == HeldTogether /\ ResumesAtTheWord /\ SentencesAreWhole
=============================================================================
