----------------------------- MODULE Tokenizer -----------------------------
\* The storage server's tokenizer on file bytes (file_parser.c) and the
\* WRITE commit that uses it (handle_ss_write): a file is a sequence of
\* one-byte strings, and split_into_sentences, split_into_words,
\* join_words, join_sentences, split_string and apply_single_update are
\* folds over it.  The module checks the spec's round trip, and that the
\* sentence-level abstraction FileText!ApplySingleUpdate, on which SSWrite
\* rests, says what the byte-level code does.
EXTENDS Integers, Sequences, SequencesExt, FileText, CString

CONSTANTS
  Chars,       \* the bytes a file or an update may contain
  InitLen,     \* bound: length of the files already on disk at start
  MaxLen,      \* bound: length of a file a commit may produce
  WordIdx,     \* word indices a client may send
  Contents,    \* update contents (after "<word_idx> "), as byte sequences
  MaxUpdates   \* bound: buffered updates per session

ASSUME InitLen \in Nat /\ MaxLen \in Nat /\ WordIdx \subseteq Int /\ MaxUpdates \in Nat

\* is_delimiter
IsDelimiter(ch) == ch \in {".", "!", "?"}

\* isspace; the model's only whitespace bytes are the ones in Chars.
IsSpace(ch) == ch \in {" ", "\n", "\t"}

\* Mutant: the whitespace after a delimiter is skipped before the sentence
\* is copied, so the sentence keeps it.
SplitSentencesKeepSkipped(C) ==
  LET Step(st, ch) ==
        IF st.skip /\ IsSpace(ch) THEN [st EXCEPT !.out[Len(st.out)] = Append(@, ch)]
        ELSE IF IsDelimiter(ch)
             THEN [out |-> Append(st.out, Append(st.cur, ch)), cur |-> <<>>, skip |-> TRUE]
             ELSE [out |-> st.out, cur |-> Append(st.cur, ch), skip |-> FALSE]
  IN Flush(FoldLeft(Step, [out |-> <<>>, cur |-> <<>>, skip |-> FALSE], C))

\* split_into_sentences: a sentence ends at and includes a delimiter;
\* whitespace right after a delimiter is skipped; a non-empty remainder is
\* the last (incomplete) sentence.
SplitSentences(C) ==
  LET Step(st, ch) ==
        IF st.skip /\ IsSpace(ch) THEN st
        ELSE IF IsDelimiter(ch)
             THEN [out |-> Append(st.out, Append(st.cur, ch)), cur |-> <<>>, skip |-> TRUE]
             ELSE [out |-> st.out, cur |-> Append(st.cur, ch), skip |-> FALSE]
  IN Flush(FoldLeft(Step, [out |-> <<>>, cur |-> <<>>, skip |-> FALSE], C))

\* split_into_words: whitespace ends a word, a delimiter ends a word and
\* is a word of its own.
SplitWords(s) ==
  LET Step(st, ch) ==
        CASE IsSpace(ch)     -> [out |-> Flush(st), cur |-> <<>>]
          [] IsDelimiter(ch) -> [out |-> Append(Flush(st), <<ch>>), cur |-> <<>>]
          [] OTHER           -> [out |-> st.out, cur |-> Append(st.cur, ch)]
  IN Flush(FoldLeft(Step, [out |-> <<>>, cur |-> <<>>], s))

\* join_words: a space after every word but the last, unless the next word
\* starts with a delimiter.
JoinWords(ws) ==
  FlattenSeq([i \in 1..Len(ws) |->
                IF i < Len(ws) /\ ~IsDelimiter(ws[i + 1][1]) THEN Append(ws[i], " ")
                ELSE ws[i]])

\* join_sentences: a space after every sentence but the last, unless the
\* next one starts with ' ' (an empty next sentence gets one).
JoinSentences(ss) ==
  FlattenSeq([i \in 1..Len(ss) |->
                IF i < Len(ss) /\ ~(ss[i + 1] # <<>> /\ ss[i + 1][1] = " ")
                THEN Append(ss[i], " ") ELSE ss[i]])

\* Mutant: the joined file is returned without the re-parse.
ApplyBytesNoReparse(C, n, w, x) ==
  LET S   == SplitSentences(C)
      S1  == IF n = Len(S) THEN Append(S, <<>>) ELSE S
      W   == SplitWords(S1[n + 1])
      F   == SubSeq(W, 1, w) \o SplitString(x) \o SubSeq(W, w + 1, Len(W))
  IN IF n < 0 \/ n > Len(S) \/ w < 0 \/ w > Len(W) THEN [ok |-> FALSE, c |-> C]
     ELSE [ok |-> TRUE, c |-> JoinSentences([S1 EXCEPT ![n + 1] = JoinWords(F)])]

\* apply_single_update(C, n, w, x): NULL (ok = FALSE) when n or w is out
\* of range; appending at n = count adds an empty sentence first.  The new
\* words are spliced in at w, the sentence and the file are joined again,
\* then split and joined once more.
ApplyBytes(C, n, w, x) ==
  LET S   == SplitSentences(C)
      S1  == IF n = Len(S) THEN Append(S, <<>>) ELSE S
      W   == SplitWords(S1[n + 1])
      F   == SubSeq(W, 1, w) \o SplitString(x) \o SubSeq(W, w + 1, Len(W))
      S2  == [S1 EXCEPT ![n + 1] = JoinWords(F)]
  IN IF n < 0 \/ n > Len(S) THEN [ok |-> FALSE, c |-> C]
     ELSE IF w < 0 \/ w > Len(W) THEN [ok |-> FALSE, c |-> C]
     ELSE [ok |-> TRUE, c |-> JoinSentences(SplitSentences(JoinSentences(S2)))]

\* The delimiter check of handle_ss_write on the file's bytes: count, or
\* count - 1 when the last non-space byte of the last sentence is no
\* delimiter.
MaxValidBytes(C) ==
  LET S  == SplitSentences(C)
      NS == IF S = <<>> THEN <<>> ELSE SelectSeq(Last(S), LAMBDA ch : ~IsSpace(ch))
  IN IF S = <<>> THEN 0
     ELSE IF NS # <<>> /\ IsDelimiter(Last(NS)) THEN Len(S) ELSE Len(S) - 1

\* The commit loop: every buffered update in order, stopping at the first
\* that fails.
ApplyAllBytes(C, n, ups) ==
  FoldLeft(LAMBDA acc, u : IF acc.ok THEN ApplyBytes(acc.c, n, u.w, u.x) ELSE acc,
           [ok |-> TRUE, c |-> C], ups)

\* The byte 0xFF.  fgetc returns it as 255, but stored in a char (signed
\* on the x86-64 build) it becomes -1 and compares equal to EOF.
ByteFF == "0xFF"

\* What a "while ((c = fgetc(f)) != EOF)" loop with char c reads of C:
\* the bytes before the first 0xFF.
ReadByChar(C) ==
  LET ends == {i \in DOMAIN C : C[i] = ByteFF}
  IN IF ends = {} THEN C ELSE SubSeq(C, 1, Min(ends) - 1)

\* handle_ss_stream: the messages sent, in order.  A word is sent when a
\* space or delimiter ends it, and that byte is sent as a message of its
\* own; a word keeps at most 255 bytes; the last word is sent at EOF.
StreamMessages(C) ==
  LET Step(st, ch) ==
        IF IsSpace(ch) \/ IsDelimiter(ch)
        THEN [out |-> Append(Flush(st), <<ch>>), cur |-> <<>>]
        ELSE [out |-> st.out, cur |-> IF Len(st.cur) < 255 THEN Append(st.cur, ch) ELSE st.cur]
  IN Flush(FoldLeft(Step, [out |-> <<>>, cur |-> <<>>], ReadByChar(C)))

\* get_word_count: the runs of bytes that are neither whitespace nor a
\* delimiter (INFO_UPDATE's word count).
WordCount(C) ==
  LET Step(st, ch) ==
        IF IsSpace(ch) \/ IsDelimiter(ch)
        THEN [count |-> st.count + (IF st.in THEN 1 ELSE 0), in |-> FALSE]
        ELSE [count |-> st.count, in |-> TRUE]
      end == FoldLeft(Step, [count |-> 0, in |-> FALSE], ReadByChar(C))
  IN end.count + (IF end.in THEN 1 ELSE 0)

\* The updates a session may buffer: lines "<w> <x>" with a non-empty x.
Updates == [w : WordIdx, x : Contents]

Sessions == UNION {[1..k -> Updates] : k \in 1..MaxUpdates}

VARIABLES
  content,  \* the file's bytes
  reply     \* the last session's final reply

vars == <<content, reply>>

\* Any file of at most InitLen bytes can be in the storage directory.
Init ==
  /\ content \in BoundedSeq(Chars, InitLen)
  /\ reply = "none"

\* A WRITE session on sentence n passes the delimiter check, buffers its
\* updates and commits them; the file is rewritten (single writer, so no
\* shift).
Write(n, ups) ==
  /\ n \in 0..MaxValidBytes(content)
  /\ LET r == ApplyAllBytes(content, n, ups)
     IN /\ r.ok
        /\ Len(r.c) <= MaxLen
        /\ content' = r.c
  /\ reply' = "200"

\* An update fails during the commit: 500, the file is left as it was.
WriteFails(n, ups) ==
  /\ n \in 0..MaxValidBytes(content)
  /\ ~ApplyAllBytes(content, n, ups).ok
  /\ reply' = "500"
  /\ UNCHANGED content

\* The delimiter check rejects the index: 400.
WriteRejected(n) ==
  /\ n \notin 0..MaxValidBytes(content)
  /\ reply' = "400"
  /\ UNCHANGED content

Next ==
  \/ \E n \in 0..Len(content), ups \in Sessions : Write(n, ups)
  \/ \E n \in 0..Len(content), ups \in Sessions : WriteFails(n, ups)
  \/ \E n \in {-1, Len(content) + 1} : WriteRejected(n)

Spec == Init /\ [][Next]_vars

\* Properties

\* The sentence structure FileText works on: one identity per sentence,
\* and whether the last sentence was cut at a delimiter (holds one).
Abs(C) ==
  LET S == SplitSentences(C)
  IN [c |-> [i \in 1..Len(S) |-> i],
      done |-> S = <<>> \/ \E i \in DOMAIN Last(S) : IsDelimiter(Last(S)[i])]

\* The kind FileText gives update "<w> <x>" on sentence n of C.
KindOf(C, n, w, x) ==
  LET S  == SplitSentences(C)
      S1 == IF n = Len(S) THEN Append(S, <<>>) ELSE S
      W  == SplitWords(S1[n + 1])
  IN IF n \notin 0..Len(S) THEN "BadIdx"
     ELSE IF w \notin 0..Len(W) THEN "BadIdx"
     ELSE (IF w = Len(W) THEN "End" ELSE "Head")
          \o (IF \E i \in 1..Len(x) : IsDelimiter(x[i]) THEN "Delim" ELSE "Plain")

\* The contents FileText's kinds describe: a delimiter, if any, is the last
\* non-space byte.
Simple(x) ==
  LET NS == SelectSeq(x, LAMBDA ch : ~IsSpace(ch))
  IN \A i \in 1..Len(NS) - 1 : ~IsDelimiter(NS[i])

\* Spec 4.1 and 8.4: joining the sentences of any file and splitting the
\* result again gives back the same sentences, byte for byte.
RoundTrip ==
  SplitSentences(JoinSentences(SplitSentences(content))) = SplitSentences(content)

\* A commit writes the file in the form splitting and joining it again
\* reproduces (the re-parse at the end of apply_single_update): after a
\* 200 the bytes on disk are a fixed point of join_sentences after
\* split_into_sentences, whatever delimiters the update put inside words.
CommitNormalizes ==
  reply = "200" => JoinSentences(SplitSentences(content)) = content

\* Spec 4.3: STREAM sends the file as its words and its whitespace and
\* delimiter bytes, one per message; put together again the messages are
\* the file.
StreamCoversFile == FlattenSeq(StreamMessages(content)) = content

\* Spec 8 scenario S1: INFO_UPDATE's word count after a commit counts the
\* words of the tokenizer, a delimiter included ("hello world." has 3).
InfoWordsAsSpec ==
  reply = "200" =>
    WordCount(content) = FoldLeft(LAMBDA acc, s : acc + Len(SplitWords(s)), 0,
                                  SplitSentences(content))

\* FileText's sentence-level apply_single_update agrees with the byte-level
\* code on every file a WRITE can reach: the delimiter check admits the
\* same indices, an update fails for the same (sentence, word) indices,
\* and succeeds with the same sentence count and the same completeness of
\* the last sentence.
AbstractionSound ==
  LET A == Abs(content)
  IN /\ MaxValidBytes(content) = MaxValidIndex(A)
     /\ \A n \in -1..Len(A.c) + 1, w \in WordIdx, x \in {y \in Contents : Simple(y)} :
          LET b == ApplyBytes(content, n, w, x)
              a == ApplySingleUpdate(A, n, KindOf(content, n, w, x), Len(A.c) + 1)
          IN /\ b.ok = a.ok
             /\ b.ok => /\ Len(Abs(b.c).c) = Len(a.fl.c)
                        /\ Abs(b.c).done = a.fl.done

====
