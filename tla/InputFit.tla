-------------------------------- MODULE InputFit --------------------------------
(* Fitting what a model is shown to its input bound, by a binary search: for a   *)
(* judge (judges.py, fit_transcript), how many actions of the transcript are     *)
(* kept, from both ends, with every message, or none of the actions, or nothing; *)
(* for a stand-in (controllers.py), how far the facts that an inspection raises  *)
(* and what was observed of them, the question of a dialog, or the lines of a    *)
(* screen are cut, and the call that refuses what is still too long. A text is   *)
(* its length; the mark that ends a shortened one takes more bytes than the      *)
(* character it replaces.                                                        *)
EXTENDS Naturals, Sequences, SequencesExt, FiniteSetsExt, Functions

CONSTANTS
    KeptActions,                    \* KEPT_ACTIONS
    Mark,                           \* the bytes of the mark
    MaxEntries, MaxSize, MaxTexts, MaxLength, MaxLimit   \* bounds

VARIABLES
    kind,         \* transcript, inspection, dialog, screen
    transcript,   \* the entries of a transcript: role and size
    texts,        \* what is raised, the question, or the lines: 0 is a blank one
    limit,
    search,       \* at, low, high, best: the limit on a text, or how many actions or lines are kept; Whole
    kept,         \* of a transcript: the entries that are kept, by position
    sent          \* of the others: "", sent, refused

vars == <<kind, transcript, texts, limit, search, kept, sent>>

Whole == 0
Entries == [role : {"message", "action"}, size : 1..MaxSize]

TranscriptInput ==
    /\ kind = "transcript" /\ texts = <<>>
    /\ transcript \in UNION {[1..n -> Entries] : n \in 0..MaxEntries} /\ limit <= MaxEntries * MaxSize
StandInInput ==
    /\ kind \in {"inspection", "dialog", "screen"} /\ transcript = <<>>
    /\ texts \in UNION {[1..n -> 0..MaxLength] : n \in 1..MaxTexts}
    /\ kind = "inspection" => \E i \in DOMAIN texts : texts[i] > 0
    /\ kind = "dialog" => Len(texts) = 1 /\ texts[1] > 0

Init ==
    /\ limit \in 1..MaxLimit
    /\ TranscriptInput \/ StandInInput
    /\ search = [at |-> "start", low |-> 0, high |-> 0, best |-> Whole] /\ kept = {} /\ sent = ""

-----------------------------------------------------------------------------
Actions == SetToSortSeq({i \in DOMAIN transcript : transcript[i].role = "action"}, <)
Messages == {i \in DOMAIN transcript : transcript[i].role = "message"}

KeepingBack(count) ==        \* the odd one at the back
    LET head == count \div 2
        n == Len(Actions)
    IN  Messages \cup {Actions[i] : i \in (1..head) \cup (n - (count - head) + 1..n)}

\* The first half of them and the last, the odd one in front.
Keeping(count) ==
    LET head == (count + 1) \div 2
        n == Len(Actions)
    IN  Messages \cup {Actions[i] : i \in (1..head) \cup (n - (count - head) + 1..n)}

\* What is not the transcript takes 1.
SizeOf(entries) == 1 + MapThenSumSet(LAMBDA i : transcript[i].size, entries)
Holds(entries) == SizeOf(entries) <= limit

Floor == IF KeptActions < Len(Actions) THEN KeptActions ELSE Len(Actions)

-----------------------------------------------------------------------------
Shortened(length, n) == IF length <= n THEN length ELSE Max({n - 1, 1}) + Mark
Sum(sizes) == FoldLeft(+, 0, sizes)

\* The last lines, without the blank ones around them; two bytes for the end of a line.
KeptLines(n) ==
    LET last == SubSeq(texts, Len(texts) - n + 1, Len(texts))
        written == {i \in DOMAIN last : last[i] > 0}
    IN  IF written = {} THEN 0
        ELSE LET from == Min(written)
                 to == Max(written)
             IN Sum(SubSeq(last, from, to)) + 2 * (to - from)

Size(n) ==
    1 + IF kind = "screen" THEN KeptLines(IF n = Whole THEN Len(texts) ELSE n)
        ELSE Sum(IF n = Whole THEN texts ELSE [i \in DOMAIN texts |-> Shortened(texts[i], n)])
Fits(n) == IF kind = "transcript" THEN Holds(Keeping(n)) ELSE Size(n) <= limit

-----------------------------------------------------------------------------
Ended == [search EXCEPT !.at = "done"]
Searching(low, high, best) == [at |-> "search", low |-> low, high |-> high, best |-> best]

TranscriptSearch == kind = "transcript" /\ search' = Searching(Floor + 1, Len(Actions) - 1, Floor)
InspectionSearch == kind = "inspection" /\ search' = Searching(1, Max(Range(texts)), 1)
DialogSearch == kind = "dialog" /\ search' = Searching(1, texts[1], Whole)
ScreenSearch == kind = "screen" /\ search' = Searching(1, Len(texts) - 1, 1)

FitsWhole == IF kind = "transcript" THEN Holds(DOMAIN transcript) ELSE Fits(Whole)

Start ==
    /\ search.at = "start"
    /\ IF FitsWhole THEN search' = Ended /\ kept' = DOMAIN transcript
       ELSE /\ TranscriptSearch \/ InspectionSearch \/ DialogSearch \/ ScreenSearch
            /\ UNCHANGED kept
    /\ UNCHANGED <<kind, transcript, texts, limit, sent>>

Longer(middle) == [search EXCEPT !.best = middle, !.low = middle + 1]
Shorter(middle) == [search EXCEPT !.high = middle - 1]

Probe ==
    LET middle == (search.low + search.high) \div 2
    IN  /\ search.at = "search" /\ search.low <= search.high
        /\ search' = IF Fits(middle) THEN Longer(middle) ELSE Shorter(middle)
        /\ UNCHANGED <<kind, transcript, texts, limit, kept, sent>>

\* Of a transcript not even the few may fit: then none of the actions, and then nothing, not the messages either.
Result ==
    IF kind # "transcript" THEN {}
    ELSE IF Fits(search.best) THEN Keeping(search.best)
    ELSE IF Floor > 0 /\ Fits(0) THEN Keeping(0)
    ELSE {}

Finish ==
    /\ search.at = "search" /\ search.low > search.high
    /\ search' = Ended /\ kept' = Result
    /\ UNCHANGED <<kind, transcript, texts, limit, sent>>

\* The call itself.
Send ==
    /\ kind # "transcript" /\ search.at = "done" /\ sent = ""
    /\ sent' = IF Fits(search.best) THEN "sent" ELSE "refused"
    /\ UNCHANGED <<kind, transcript, texts, limit, search, kept>>

Next == Start \/ Probe \/ Finish \/ Send

Spec == Init /\ [][Next]_vars
-----------------------------------------------------------------------------
\* As much of a transcript as fits is kept: everything, or the messages and as many actions as fit if those are
\* at least the few, else the messages alone, else nothing; what is kept is within the bound unless it is nothing.
Reference ==
    LET fitting == {k \in 0..Len(Actions) : Holds(Messages \cup {Actions[i] : i \in {j \in 1..Len(Actions) :
                                                   2 * j <= k + 1 \/ 2 * (Len(Actions) - j) < k - (k % 2)}})}
    IN  IF fitting = {} THEN {}
        ELSE IF Max(fitting) >= Floor THEN Keeping(Max(fitting)) ELSE Messages
TranscriptFitted == kind = "transcript" /\ search.at = "done" => kept = Reference

\* A request is refused only when not even its shortest form is within the bound; a dialog's question and
\* a screen are cut no more than they must be; and no text that is raised could have been longer by one
\* character, though there a longer cut may take fewer bytes, and the search is not the best there is.
Cuts == 1..(IF kind = "screen" THEN Len(texts) - 1 ELSE Max(Range(texts)))
PromptFitted ==
    /\ sent = "refused" => ~Fits(Whole) /\ ~Fits(1)
    /\ sent = "sent" /\ search.best # Whole =>
        /\ ~Fits(Whole)
        /\ kind # "inspection" => \A n \in Cuts : Fits(n) => n <= search.best
        /\ kind = "inspection" /\ search.best + 1 \in Cuts => ~Fits(search.best + 1)
    /\ sent = "sent" /\ search.best = Whole => Fits(Whole)
=============================================================================
