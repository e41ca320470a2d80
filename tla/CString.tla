------------------------------ MODULE CString ------------------------------
\* The C string helpers the servers parse messages with (common.c and the
\* libc calls next to them), on byte strings: a string is a sequence of
\* one-byte strings.
EXTENDS Integers, Sequences, SequencesExt

\* A word or token being collected ends: keep it when it is non-empty.
Flush(st) == IF st.cur = <<>> THEN st.out ELSE Append(st.out, st.cur)

\* split_string(str, " "): the non-empty tokens strtok_r finds between
\* spaces.
SplitString(x) ==
  LET Step(st, ch) ==
        IF ch = " " THEN [out |-> Flush(st), cur |-> <<>>]
        ELSE [out |-> st.out, cur |-> Append(st.cur, ch)]
  IN Flush(FoldLeft(Step, [out |-> <<>>, cur |-> <<>>], x))

DigitValue == [d \in {"0", "1", "2", "3", "4", "5", "6", "7", "8", "9"} |->
                 CHOOSE v \in 0..9 : <<"0", "1", "2", "3", "4", "5", "6", "7", "8", "9">>[v + 1] = d]

\* atoi on a split_string token: an optional sign, then the longest run of
\* digits; a token that does not start with one gives 0.
Atoi(tok) ==
  LET neg    == tok # <<>> /\ tok[1] = "-"
      body   == IF tok # <<>> /\ tok[1] \in {"+", "-"} THEN Tail(tok) ELSE tok
      stops  == {i \in 1..Len(body) : body[i] \notin DOMAIN DigitValue}
      digits == SubSeq(body, 1, IF stops = {} THEN Len(body) ELSE Min(stops) - 1)
      val    == FoldLeft(LAMBDA acc, d : 10 * acc + DigitValue[d], 0, digits)
  IN IF neg THEN -val ELSE val

\* strstr(buf, " ") + 1: the bytes after the first space.
AfterFirstSpace(buf) ==
  LET sp == {i \in 1..Len(buf) : buf[i] = " "}
  IN SubSeq(buf, Min(sp) + 1, Len(buf))

====
