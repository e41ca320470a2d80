------------------------------ MODULE FileText ------------------------------
\* A file as the storage server's tokenizer sees it (file_parser.c), and
\* what a WRITE session's updates do to it.  File bytes are abstracted to
\* their sentence structure: a file is a sequence of sentence identities
\* plus whether its last sentence ends in a delimiter.  Identities are
\* never shown to the code; they let properties say which sentence an
\* index designates.
EXTENDS Integers, Sequences, SequencesExt

CONSTANT Absent   \* model value: the file (or its .undo file) is not on disk

\* A file: its sentences in order and whether the last one is complete.
FileContent == [c : Seq(Nat \ {0}), done : BOOLEAN]

\* The empty file; it has no incomplete trailing sentence.
Empty == [c |-> <<>>, done |-> TRUE]

\* get_file_content returns NULL for a missing file; callers use "".
Load(d) == IF d = Absent THEN Empty ELSE d

\* Mutant: the delimiter check left out.
MaxValidIndexNoDelimCheck(fl) == Len(fl.c)

\* The delimiter check of handle_ss_write: the largest index a WRITE may
\* name is the sentence count, or one less when the last sentence has no
\* delimiter (count 0 gives 0).
MaxValidIndex(fl) == Len(fl.c) - (IF fl.done THEN 0 ELSE 1)

\* What one buffered update "<word_idx> <content>" does to the sentence
\* structure (apply_single_update).  The client's content and word index
\* are abstracted to a kind:
\*   HeadPlain  words without a delimiter, before the sentence's last word
\*   HeadDelim  words ending in a delimiter, before the sentence's words
\*   EndPlain   words without a delimiter at word_idx = word_count
\*   EndDelim   words ending in a delimiter at word_idx = word_count
\*   BadIdx     word_idx outside [0, word_count]
\* A new sentence made by an inserted delimiter gets the identity fresh;
\* the original keeps the part holding its own last word.  Text after a
\* complete sentence's delimiter is re-tokenized into the next sentence,
\* or becomes a new incomplete last sentence.
Kinds == {"HeadPlain", "HeadDelim", "EndPlain", "EndDelim", "BadIdx"}

ApplySingleUpdate(fl, r, k, fresh) ==
  LET n         == Len(fl.c)
      delim     == k \in {"HeadDelim", "EndDelim"}
      complete  == r < n - 1 \/ fl.done
      Fail      == [ok |-> FALSE, fl |-> fl, fresh |-> fresh]
      Same      == [ok |-> TRUE, fl |-> fl, fresh |-> fresh]
      Keep(d)   == [ok |-> TRUE, fl |-> [c |-> fl.c, done |-> d], fresh |-> fresh]
      Put(c, d) == [ok |-> TRUE, fl |-> [c |-> c, done |-> d], fresh |-> fresh + 1]
  IN CASE r < 0 \/ r > n \/ k = "BadIdx"         -> Fail
       [] r = n /\ n > 0 /\ ~fl.done            -> Keep(delim)
       [] r = n                                  -> Put(Append(fl.c, fresh), delim)
       [] k = "HeadDelim"                        -> Put(InsertAt(fl.c, r + 1, fresh), fl.done)
       [] k = "EndPlain" /\ r = n - 1 /\ fl.done -> Put(Append(fl.c, fresh), FALSE)
       [] k = "EndDelim" /\ complete             -> Put(InsertAt(fl.c, r + 2, fresh), fl.done)
       [] k = "EndDelim"                         -> Keep(TRUE)
       [] OTHER                                  -> Same

\* The commit loop of handle_ss_write: every buffered update in order at
\* the same real index, stopping at the first that fails.
ApplyUpdates(fl, r, ups, fresh) ==
  FoldLeft(LAMBDA acc, k : IF acc.ok THEN ApplySingleUpdate(acc.fl, r, k, acc.fresh)
                                     ELSE acc,
           [ok |-> TRUE, fl |-> fl, fresh |-> fresh], ups)

\* The sentence that index n designates in fl (0 when there is none).
TargetAt(fl, n) == IF n \in 0..Len(fl.c) - 1 THEN fl.c[n + 1] ELSE 0

\* The identity after n - 1 and every identity in S.
FreshAbove(n, S) == 1 + FoldSet(LAMBDA x, y : IF x > y THEN x ELSE y, n - 1, S)

====
