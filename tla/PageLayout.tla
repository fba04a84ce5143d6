----------------------------- MODULE PageLayout -----------------------------
(***************************************************************************)
(* The pure part of document/virtual: the logical pages of a source        *)
(* (buildLogicalPages), the pages of a fragment publication                *)
(* (validateFragments, lineAndBoundaryMap, buildPublishedPages) and the    *)
(* windows cut from them under a budget (window.go).                       *)
(*                                                                         *)
(* A source is a sequence of kinds of runes; only a kind's width in bytes  *)
(* and its being a line feed matter.  Pages and fragments are numbered     *)
(* from 1, and 0 stands for the code's -1.  The 64 KiB blocks of the scan  *)
(* and the runes they cut are left out: a page never depends on them.      *)
(***************************************************************************)
EXTENDS Integers, FiniteSetsExt, SequencesExt

CONSTANTS
    Width,             \* bytes of the encoding of each kind of rune
    LineFeed,          \* the kind that ends a line
    UTFMax,            \* utf8.UTFMax, the least TargetPageBytes admitted
    TargetPageBytes, MaximumPageBytes,
    MaximumFragments, MaximumKeyBytes,
    KeyBytes,          \* bytes of ID and DataKey of each fragment identity
    MaxInt,            \* bound standing for math.MaxInt64
    WindowLimit        \* Options.Window: bytes, pages, fragments, measure

ASSUME LayoutAssumption ==
    /\ LineFeed \in DOMAIN Width /\ UTFMax \in Nat
    /\ \A k \in DOMAIN Width : Width[k] \in 1..UTFMax
    /\ UTFMax <= TargetPageBytes /\ TargetPageBytes <= MaximumPageBytes
    /\ MaximumFragments >= 1 /\ MaximumKeyBytes >= 1
    /\ WindowLimit \in [bytes : Nat, pages : Nat \ {0}, fragments : Nat \ {0},
                        measure : Nat \ {0}]
    /\ WindowLimit.bytes >= MaximumPageBytes

Starts(text) ==
    LET s[k \in 0..Len(text)] == IF k = 0 THEN 0 ELSE s[k - 1] + Width[text[k]]
    IN  s
Length(text) == Starts(text)[Len(text)]
RuneBoundary(text, offset) == offset \in Range(Starts(text))

-----------------------------------------------------------------------------
\* buildLogicalPages

\* appendPage: the page that ends here, with the scan's position behind it.
AppendPage(scan, length, end, line, lf) ==
    LET from == /\ scan.start > 0 /\ scan.pages # <<>>
                /\ ~scan.pages[Len(scan.pages)].endsWithLF
    IN  [scan EXCEPT
           !.pages = Append(@, [start |-> scan.start, end |-> end,
                                startLine |-> scan.startLine, endLine |-> line,
                                continuesFrom |-> from,
                                continuesTo |-> end < length /\ ~lf,
                                endsWithLF |-> lf]),
           !.start = end, !.startLine = line]

\* A page that is long enough ends behind a line feed.
CutBehind(read, length, end) ==
    IF end - read.start >= TargetPageBytes /\ read.lf
    THEN AppendPage(read, length, end, read.line, TRUE) ELSE read

\* The body of the scan for the k-th rune: a page that would grow too long
\* ends in front of it, a page that is long enough ends behind a line feed.
ScanRune(text, scan, k) ==
    LET end == Starts(text)[k]
        lf == text[k] = LineFeed
        cut == IF end - scan.start > MaximumPageBytes
               THEN AppendPage(scan, Length(text), Starts(text)[k - 1],
                               scan.line, scan.lf)
               ELSE scan
    IN  CutBehind([cut EXCEPT !.line = @ + (IF lf THEN 1 ELSE 0), !.lf = lf],
                  Length(text), end)

\* The last page, and the one page of an empty source.
ScanEnd(last, length) ==
    IF last.start < length
    THEN AppendPage(last, length, length, last.line, last.lf).pages
    ELSE IF last.pages # <<>> THEN last.pages
    ELSE <<[start |-> 0, end |-> 0, startLine |-> 0, endLine |-> 0,
            continuesFrom |-> FALSE, continuesTo |-> FALSE, endsWithLF |-> FALSE]>>

LogicalPages(text) ==
    LET empty == [pages |-> <<>>, start |-> 0, startLine |-> 0, line |-> 0,
                  lf |-> FALSE]
        scan[k \in 0..Len(text)] ==
            IF k = 0 THEN empty ELSE ScanRune(text, scan[k - 1], k)
    IN  ScanEnd(scan[Len(text)], Length(text))

-----------------------------------------------------------------------------
\* Publications

\* Measure of the fragments in front of the i-th.
MeasureBefore(fragments, i) ==
    FoldFunctionOnSet(+, 0, [j \in DOMAIN fragments |-> fragments[j].measure],
                      1..(i - 1))

\* validateFragments
ValidFragments(text, pub) ==
    LET f == pub.fragments
        cursor(i) == IF i = 1 THEN 0 ELSE f[i - 1].end
    IN  /\ pub.through \in 0..Length(text)
        /\ pub.complete => pub.through = Length(text)
        /\ Len(f) <= MaximumFragments
        /\ \A i \in DOMAIN f :
              /\ f[i].start >= cursor(i) /\ f[i].end > f[i].start
              /\ f[i].end <= pub.through
              /\ f[i].measure \in 0..WindowLimit.measure
              /\ \A j \in 1..(i - 1) : f[j].id # f[i].id
        /\ MeasureBefore(f, Len(f) + 1) <= MaxInt
        /\ MapThenSumSet(LAMBDA i : KeyBytes[f[i].id], DOMAIN f) <= MaximumKeyBytes

\* Offsets at which a publication cuts pages.
ExtraOffsets(text, pub) ==
    (UNION {{f.start, f.end} : f \in Range(pub.fragments)})
      \cup (IF pub.through > 0 /\ pub.through < Length(text)
            THEN {pub.through} ELSE {})

\* lineAndBoundaryMap rejects an offset inside a logical page whose byte
\* continues a rune; the ends of logical pages are boundaries already.
ValidOffsets(text, pub) ==
    LET logical == LogicalPages(text)
    IN  \A offset \in ExtraOffsets(text, pub) :
          (\E i \in DOMAIN logical :
              logical[i].start < offset /\ offset < logical[i].end)
             => RuneBoundary(text, offset)

ValidPublication(text, pub) == ValidFragments(text, pub) /\ ValidOffsets(text, pub)

\* lineAndBoundaryMap: line of an offset, counted from the start of a logical
\* page, and whether it stands behind a line feed.
LineFeedsIn(text, from, to) ==
    Cardinality({k \in 1..Len(text) : /\ text[k] = LineFeed
                                      /\ Starts(text)[k - 1] >= from
                                      /\ Starts(text)[k] <= to})
LineAt(text, logical, offset) ==
    LET i == CHOOSE i \in DOMAIN logical :
                logical[i].start <= offset /\ offset <= logical[i].end
    IN  IF offset = logical[i].end THEN logical[i].endLine
        ELSE logical[i].startLine + LineFeedsIn(text, logical[i].start, offset)
AfterLF(text, offset) ==
    \/ offset = 0
    \/ \E k \in 1..Len(text) : Starts(text)[k] = offset /\ text[k] = LineFeed

Boundaries(text, pub) ==
    {0} \cup {p.end : p \in Range(LogicalPages(text))}
        \cup ExtraOffsets(text, pub)

\* sort.Slice and compactOffsets
Sorted(offsets) ==
    [i \in 1..Cardinality(offsets) |->
        CHOOSE x \in offsets : Cardinality({y \in offsets : y < x}) = i - 1]

\* The fragment the loop over boundaries has reached, if it holds the page.
FragmentOf(fragments, start, end) ==
    LET ahead == {i \in DOMAIN fragments : fragments[i].end > start}
    IN  IF ahead # {} /\ fragments[Min(ahead)].start <= start
                      /\ end <= fragments[Min(ahead)].end
        THEN Min(ahead) ELSE 0

\* The loops of buildPublishedPages over the boundaries.
PagesBetween(text, pub, logical, cuts) ==
    LET fragment(i) == FragmentOf(pub.fragments, cuts[i], cuts[i + 1])
        siblings(i) == {j \in 1..(Len(cuts) - 1) :
                          fragment(i) # 0 /\ fragment(j) = fragment(i)}
        Page(i) ==
            [start |-> cuts[i], end |-> cuts[i + 1],
             startLine |-> LineAt(text, logical, cuts[i]),
             endLine |-> LineAt(text, logical, cuts[i + 1]),
             continuesFrom |-> cuts[i] > 0 /\ ~AfterLF(text, cuts[i]),
             continuesTo |-> /\ cuts[i + 1] < Length(text)
                             /\ ~AfterLF(text, cuts[i + 1]),
             fragment |-> fragment(i),
             indexed |-> cuts[i + 1] <= pub.through,
             continuation |-> IF siblings(i) = {} THEN 0 ELSE i - Min(siblings(i)),
             continuations |-> Cardinality(siblings(i))]
    IN  IF Length(text) = 0
        THEN <<[start |-> 0, end |-> 0, startLine |-> 0, endLine |-> 0,
                continuesFrom |-> FALSE, continuesTo |-> FALSE, fragment |-> 0,
                indexed |-> pub.complete, continuation |-> 0,
                continuations |-> 0]>>
        ELSE [i \in 1..(Len(cuts) - 1) |-> Page(i)]

\* buildPublishedPages
PublishedPages(text, pub) ==
    PagesBetween(text, pub, LogicalPages(text), Sorted(Boundaries(text, pub)))

\* Generation 0: the logical pages, nothing indexed.
Unpublished == [through |-> 0, complete |-> FALSE, fragments |-> <<>>]

\* pagerState: the pages, and each fragment with its place among measures and
\* pages.
StateOf(generation, pub, pages) ==
    LET PagesOf(i) == {k \in DOMAIN pages : pages[k].fragment = i}
    IN  [generation |-> generation, pages |-> pages,
         fragments |-> [i \in DOMAIN pub.fragments |->
            [id |-> pub.fragments[i].id, measure |-> pub.fragments[i].measure,
             measureStart |-> MeasureBefore(pub.fragments, i),
             measureEnd |-> MeasureBefore(pub.fragments, i + 1),
             pageFirst |-> Min(PagesOf(i)), pageLast |-> Max(PagesOf(i))]]]

PagerState(text, generation, pub) ==
    StateOf(generation, pub, PublishedPages(text, pub))

-----------------------------------------------------------------------------
\* Windows

\* resolveBudget refuses a budget beyond the limits of the Pager.
ValidBudget(b) ==
    \A field \in DOMAIN WindowLimit : b[field] \in 1..WindowLimit[field]

TotalMeasure(fragments) ==
    IF fragments = <<>> THEN 0 ELSE fragments[Len(fragments)].measureEnd

\* sort.Search for the first page that ends behind the offset.
PageAtByte(pages, offset, length) ==
    LET behind == {i \in DOMAIN pages : pages[i].end > offset}
    IN  IF offset = length \/ behind = {} THEN Len(pages) ELSE Min(behind)

PageBeforeByte(pages, offset, length) ==
    IF offset <= 0 THEN 1
    ELSE IF offset >= length THEN Len(pages)
    ELSE PageAtByte(pages, offset - 1, length)

FragmentAtMeasure(fragments, offset, affinity) ==
    LET before == {i \in DOMAIN fragments : fragments[i].measureStart < offset}
        after == {i \in DOMAIN fragments : fragments[i].measureEnd > offset}
    IN  IF Len(fragments) = 1 THEN 1
        ELSE IF TotalMeasure(fragments) = 0
        THEN IF affinity = "before" THEN Len(fragments) ELSE 1
        ELSE IF affinity = "before"
        THEN IF before = {} THEN 1 ELSE Max(before)
        ELSE IF after = {} THEN Len(fragments) ELSE Min(after)

\* addPageUsage over the pages first..last.
Usage(state, first, last) ==
    LET used == {state.pages[i].fragment : i \in first..last} \ {0}
    IN  [bytes |-> MapThenSumSet(LAMBDA i : state.pages[i].end - state.pages[i].start,
                                 first..last),
         pages |-> last - first + 1,
         fragments |-> used,
         measure |-> MapThenSumSet(LAMBDA i : state.fragments[i].measure, used)]

\* Mutant: a fragment's measure is only charged for its first page.
FitsPageFree(state, i, budget, current) ==
    LET page == state.pages[i]
    IN  /\ current.pages < budget.pages
        /\ page.end - page.start <= budget.bytes - current.bytes
        /\ \/ page.fragment \in current.fragments \cup {0}
           \/ page.continuation > 0
           \/ /\ Cardinality(current.fragments) < budget.fragments
              /\ state.fragments[page.fragment].measure
                    <= budget.measure - current.measure

FitsPage(state, i, budget, current) ==
    LET page == state.pages[i]
    IN  /\ current.pages < budget.pages
        /\ page.end - page.start <= budget.bytes - current.bytes
        /\ \/ page.fragment \in current.fragments \cup {0}
           \/ /\ Cardinality(current.fragments) < budget.fragments
              /\ state.fragments[page.fragment].measure
                    <= budget.measure - current.measure

\* readWindow without the reads: the anchor, then pages in front of it, then
\* pages behind it, until one does not fit.
WindowRange(state, anchor, desiredFirst, desiredLast, budget) ==
    LET Back(f) == \A i \in f..(anchor - 1) :
                      FitsPage(state, i, budget, Usage(state, i + 1, anchor))
        first == Min({f \in desiredFirst..anchor : Back(f)})
        Ahead(l) == \A i \in (anchor + 1)..l :
                       FitsPage(state, i, budget, Usage(state, first, i - 1))
        last == Max({l \in anchor..desiredLast : Ahead(l)})
    IN  IF \/ anchor \notin DOMAIN state.pages \/ desiredFirst \notin 1..anchor
           \/ desiredLast \notin anchor..Len(state.pages)
        THEN [status |-> "invalid"]
        ELSE IF ~FitsPage(state, anchor, budget, Usage(state, 1, 0))
        THEN [status |-> "exceeded"]
        ELSE [status |-> "ok", first |-> first, last |-> last,
              truncatedBefore |-> first > desiredFirst,
              truncatedAfter |-> last < desiredLast]

\* WindowByByte
WindowByByte(state, length, offset, before, after, budget) ==
    LET anchor == PageAtByte(state.pages, offset, length)
        first == IF before = 0 THEN anchor
                 ELSE PageAtByte(state.pages, offset - Min({offset, before}), length)
        end == Min({offset + after, length})
        last == IF end = offset THEN anchor
                ELSE PageBeforeByte(state.pages, end, length)
    IN  WindowRange(state, anchor, first, last, budget)

\* WindowByFragment
WindowByFragment(state, i, continuation, before, after, budget) ==
    LET first == i - Min({i - 1, before})
        last == Min({i + after, Len(state.fragments)})
        pages == state.fragments[i].pageLast - state.fragments[i].pageFirst + 1
    IN  IF continuation >= pages THEN [status |-> "invalid"]
        ELSE WindowRange(state, state.fragments[i].pageFirst + continuation,
                         state.fragments[first].pageFirst,
                         state.fragments[last].pageLast, budget)

\* WindowByMeasure
WindowByMeasure(state, offset, affinity, before, after, budget) ==
    LET f == state.fragments
        total == TotalMeasure(f)
        i == FragmentAtMeasure(f, offset, affinity)
        anchor == IF total > 0 /\ offset = 0 THEN state.fragments[i].pageFirst
                  ELSE IF total > 0 /\ offset = total THEN state.fragments[i].pageLast
                  ELSE IF affinity = "before" THEN state.fragments[i].pageLast
                  ELSE state.fragments[i].pageFirst
        start == offset - Min({offset, before})
        first == IF start < offset THEN FragmentAtMeasure(f, start, "after") ELSE i
        end == Min({offset + after, total})
        last == IF end > offset THEN FragmentAtMeasure(f, end, "before") ELSE i
    IN  WindowRange(state, anchor, state.fragments[first].pageFirst,
                    state.fragments[last].pageLast, budget)

-----------------------------------------------------------------------------
\* What pages and windows have to be, said without the scans and searches

LineFeedsBefore(text, offset) == LineFeedsIn(text, 0, offset)

\* A logical page ends behind the first line feed that makes it TargetPageBytes
\* long or, if none comes in time, as late as MaximumPageBytes allows.
LogicalExact(text, pages) ==
    LET Ends(from) == {e \in 1..Length(text) : e > from /\ RuneBoundary(text, e)}
        Long(from) == {e \in Ends(from) : e - from >= TargetPageBytes
                                          /\ AfterLF(text, e)}
        Fitting(from) == {e \in Ends(from) : e - from <= MaximumPageBytes}
    IN  \A i \in DOMAIN pages :
          Length(text) > 0 =>
            pages[i].end = Min(Long(pages[i].start) \cup {Max(Fitting(pages[i].start))})

\* The pages of a publication tile the source in runes, in pages no longer than
\* MaximumPageBytes, with true line numbers; the fragments and the analysed
\* prefix are unions of pages, and the pages of a fragment are counted off.
PublishedExact(text, pub, pages) ==
    LET n == Len(pages)
        f == pub.fragments
        Inside(i) == {k \in 1..n : f[i].start <= pages[k].start
                                   /\ pages[k].end <= f[i].end}
    IN  /\ n > 0 /\ pages[1].start = 0 /\ pages[n].end = Length(text)
        /\ \A k \in 1..n :
             /\ k > 1 => pages[k].start = pages[k - 1].end
             /\ pages[k].end > pages[k].start \/ Length(text) = 0
             /\ pages[k].end - pages[k].start <= MaximumPageBytes
             /\ RuneBoundary(text, pages[k].start)
             /\ pages[k].startLine = LineFeedsBefore(text, pages[k].start)
             /\ pages[k].endLine = LineFeedsBefore(text, pages[k].end)
             /\ k > 1 => pages[k].continuesFrom = pages[k - 1].continuesTo
             /\ pages[k].indexed \/ pages[k].start >= pub.through
             /\ pages[k].fragment # 0 => k \in Inside(pages[k].fragment)
        /\ \A i \in DOMAIN f :
             /\ {k \in 1..n : pages[k].fragment = i} = Inside(i)
             /\ f[i].start \in {pages[k].start : k \in Inside(i)}
             /\ f[i].end \in {pages[k].end : k \in Inside(i)}
             /\ {pages[k].continuation : k \in Inside(i)}
                   = 0..(Cardinality(Inside(i)) - 1)
             /\ \A k \in Inside(i) : pages[k].continuations = Cardinality(Inside(i))

Within(usage, budget) ==
    /\ usage.bytes <= budget.bytes /\ usage.pages <= budget.pages
    /\ Cardinality(usage.fragments) <= budget.fragments
    /\ usage.measure <= budget.measure

\* A window keeps to its budget in all four dimensions, and stops short of the
\* pages asked for only where one page more would exceed it.
BudgetKept(state, w, budget) ==
    w.status = "ok" =>
      /\ Within(Usage(state, w.first, w.last), budget)
      /\ w.truncatedBefore => ~Within(Usage(state, w.first - 1, w.last), budget)
      /\ w.truncatedAfter => ~Within(Usage(state, w.first, w.last + 1), budget)

\* A byte window holds the offset and, on every side that is not truncated,
\* every byte asked for; only a page too large for the budget is refused.
ByteWindowExact(state, w, length, offset, before, after, budget) ==
    LET page(i) == state.pages[i]
    IN  /\ w.status # "invalid"
        /\ BudgetKept(state, w, budget)
        /\ w.status = "exceeded" =>
             \E i \in DOMAIN state.pages :
               /\ page(i).start <= offset /\ offset <= page(i).end
               /\ offset = page(i).end => offset = length
               /\ ~Within(Usage(state, i, i), budget)
        /\ w.status = "ok" =>
             /\ page(w.first).start <= offset /\ offset <= page(w.last).end
             /\ w.truncatedBefore \/ page(w.first).start <= Max({0, offset - before})
             /\ w.truncatedAfter \/ page(w.last).end >= Min({offset + after, length})

\* A measure window that is not truncated holds every fragment whose interval
\* overlaps the measures asked for.
MeasureWindowExact(state, w, offset, affinity, before, after, budget) ==
    LET f == state.fragments
        shown == {state.pages[k].fragment : k \in w.first..w.last}
    IN  /\ w.status # "invalid"
        /\ BudgetKept(state, w, budget)
        /\ w.status = "ok" =>
             /\ \E i \in shown \ {0} : f[i].measureStart <= offset
                                       /\ offset <= f[i].measureEnd
             /\ \A i \in DOMAIN f :
                  /\ /\ f[i].measureStart < offset
                     /\ f[i].measureEnd > Max({0, offset - before})
                     => w.truncatedBefore \/ i \in shown
                  /\ /\ f[i].measureEnd > offset
                     /\ f[i].measureStart < Min({offset + after, TotalMeasure(f)})
                     => w.truncatedAfter \/ i \in shown

\* A fragment window that is not truncated holds all pages of the fragments
\* asked for; it is refused only for a continuation the fragment does not have.
FragmentWindowExact(state, w, i, continuation, before, after, budget) ==
    LET PagesOf(j) == {k \in DOMAIN state.pages : state.pages[k].fragment = j}
    IN  /\ w.status = "invalid" <=> continuation >= Cardinality(PagesOf(i))
        /\ BudgetKept(state, w, budget)
        /\ w.status = "ok" =>
             /\ \E k \in w.first..w.last :
                  state.pages[k].fragment = i /\ state.pages[k].continuation = continuation
             /\ w.truncatedBefore \/ \A j \in DOMAIN state.fragments :
                  j \in (i - before)..(i - 1) => PagesOf(j) \subseteq w.first..w.last
             /\ w.truncatedAfter \/ \A j \in DOMAIN state.fragments :
                  j \in (i + 1)..(i + after) => PagesOf(j) \subseteq w.first..w.last
=============================================================================
