--------------------------------- MODULE Gz ---------------------------------
(* GzBufferWriter, GzBufferReader and read_gz_file of gz.h.  zlib is         *)
(* external: a gzwrite that fails answers 0, having taken some of the        *)
(* records, and so does every later one on that stream, and every one on a   *)
(* stream that gzopen could not open; gzclose takes all.                     *)
(* A record is its number, a text a sequence of "c", "cr" and "nl".          *)
EXTENDS Integers, SequencesExt

CONSTANTS Len1,        \* len of the writer's buffer
          Len2,        \* len of the reader's buffer
          MaxRecords,  \* bound: records given to the writer
          Texts        \* bound: texts read by read_gz_file

VARIABLES writer,  \* buffer: its first used_count records; zp: the stream, "failed" also for null
          disk,    \* the records in the writer's file
          given,   \* history: the records given since the last open, and those buffered then
          upset,   \* history: a call answered a failure, or a flush of outside data passed the buffer by
          reader,  \* zp: "null" if gzopen failed; pos: records read; eof: gzeof;
                   \* buffer and next: current_total, next_idx
          taken,   \* history: the records taken since the stream was opened
          text,    \* read_gz_file: what is left, and the line and lines so far
          whole    \* history: all of the text, "none" before the call
gzVars == <<writer, disk, given, upset, reader, taken, text, whole>>

NoText == [left |-> <<>>, line |-> <<>>, lines |-> <<>>]
Init == /\ writer = [zp |-> "none", buffer |-> <<>>, next |-> 1] /\ disk = <<>> /\ given = <<>> /\ upset = FALSE
        /\ reader = [zp |-> "none", pos |-> 0, eof |-> FALSE, buffer |-> <<>>, next |-> 0, old |-> FALSE]
        /\ taken = <<>> /\ text = NoText /\ whole = "none"

Others == UNCHANGED <<reader, taken, text, whole>>
Head1(s, n) == SubSeq(s, 1, n)

\* open truncates the file; what the buffer still holds goes to the new one.
\* A gzopen that fails leaves the file and a null stream, and open answers so.
OpenWriter == /\ reader.zp = "none" /\ given' = writer.buffer /\ Others
              /\ \E opened \in BOOLEAN :
                    /\ writer' = [writer EXCEPT !.zp = IF opened THEN "ok" ELSE "failed"]
                    /\ disk' = IF opened THEN <<>> ELSE disk
                    /\ upset' = ~opened

\* flush(pData, count): ret is what the function answers, put what the file gets.
Gzwrite(d) == (IF writer.zp = "ok" THEN {[ret |-> Len(d), put |-> Len(d), zp |-> "ok"]} ELSE {})
              \cup {[ret |-> 0, put |-> k, zp |-> "failed"] : k \in IF writer.zp = "ok" THEN 0 .. Len(d) - 1 ELSE {0}}
Flush(d, g, u, keep, n) ==
    \E r \in Gzwrite(d) :
       /\ disk' = disk \o Head1(d, r.put) /\ given' = given \o g
       /\ upset' = (upset \/ u \/ r.ret # Len(d))
       /\ writer' = [writer EXCEPT !.zp = r.zp, !.next = n,
                                   !.buffer = IF keep THEN @ ELSE IF r.ret = Len(d) THEN <<>> ELSE d]
       /\ Others

\* used_count is checked nowhere: after a failure the next record is stored
\* past the buffer, and the step is left out.
MayStore == writer.zp # "none" /\ writer.next <= MaxRecords /\ Len(writer.buffer) < Len1
MutAppend == /\ MayStore
             /\ IF Len(writer.buffer) + 1 = Len1
                THEN Flush(writer.buffer, <<writer.next>>, FALSE, FALSE, writer.next + 1)
                ELSE /\ writer' = [writer EXCEPT !.buffer = Append(@, writer.next), !.next = @ + 1]
                     /\ given' = Append(given, writer.next) /\ UNCHANGED <<disk, upset>> /\ Others
AppendRecord == /\ MayStore
                /\ LET b == Append(writer.buffer, writer.next)
                   IN IF Len(b) = Len1 THEN Flush(b, <<writer.next>>, FALSE, FALSE, writer.next + 1)
                      ELSE /\ writer' = [writer EXCEPT !.buffer = b, !.next = @ + 1]
                           /\ given' = Append(given, writer.next) /\ UNCHANGED <<disk, upset>> /\ Others
WriteRecord == MayStore /\ Flush(Append(writer.buffer, writer.next), <<writer.next>>, FALSE, FALSE, writer.next + 1)
FlushBuffer == writer.zp # "none" /\ writer.buffer # <<>> /\ Flush(writer.buffer, <<>>, FALSE, FALSE, writer.next)
FlushOutside(n) == /\ writer.zp # "none" /\ writer.next + n - 1 <= MaxRecords
                   /\ LET d == [i \in 1 .. n |-> writer.next + i - 1]
                      IN Flush(d, d, writer.buffer # <<>>, TRUE, writer.next + n)

\* ~GzBufferWriter closes the stream and flushes nothing.
DestroyWriter == /\ writer.zp # "none" /\ writer' = [writer EXCEPT !.zp = "none", !.buffer = <<>>]
                 /\ given' = disk /\ UNCHANGED <<disk, upset>> /\ Others

\* open keeps current_total and next_idx: until the next read get_one gives
\* records of the old stream.  Where gzopen fails every read answers -1.
Outside == UNCHANGED <<writer, disk, given, upset, text, whole>>
Rest == SubSeq(reader.buffer, reader.next + 1, Len(reader.buffer))
OpenReader == /\ writer.zp = "none" /\ taken' = <<>> /\ Outside
              /\ \E z \in {"ok", "null"} :
                    reader' = [reader EXCEPT !.zp = z, !.pos = 0, !.eof = FALSE, !.old = (Rest # <<>>)]
\* read: at eof it leaves the buffer alone; otherwise what was not taken is gone.
ReadRecords == /\ reader.zp = "ok" /\ UNCHANGED taken /\ Outside
               /\ LET n == IF Len(disk) - reader.pos < Len2 THEN Len(disk) - reader.pos ELSE Len2
                  IN ~reader.eof /\ reader' = [reader EXCEPT !.buffer = SubSeq(disk, reader.pos + 1, reader.pos + n), !.next = 0,
                                                             !.pos = @ + n, !.eof = n < Len2, !.old = @ \/ Rest # <<>>]
TakeOne == /\ reader.next < Len(reader.buffer) /\ Outside
           /\ taken' = Append(taken, reader.buffer[reader.next + 1])
           /\ reader' = [reader EXCEPT !.next = @ + 1]
CloseReader == /\ reader.zp # "none" /\ taken' = <<>> /\ Outside
               /\ reader' = [reader EXCEPT !.zp = "none", !.pos = 0, !.buffer = <<>>, !.next = 0]

\* read_gz_file: a gzread gives any number of characters.
Take(t, c) == IF c = "nl" THEN [t EXCEPT !.lines = Append(@, t.line), !.line = <<>>]
              ELSE IF c = "cr" THEN t ELSE [t EXCEPT !.line = Append(@, c)]
Quiet == UNCHANGED <<writer, disk, given, upset, reader, taken>>
OpenText(t) == whole = "none" /\ whole' = t /\ text' = [NoText EXCEPT !.left = t] /\ Quiet
TextAfter(n) == LET after[k \in 0 .. n] == IF k = 0 THEN text ELSE Take(after[k - 1], text.left[k])
                IN [after[n] EXCEPT !.left = SubSeq(@, n + 1, Len(@))]
ReadText(n) == n <= Len(text.left) /\ text' = TextAfter(n) /\ UNCHANGED whole /\ Quiet
EndText == /\ text.left = <<>> /\ text.line # <<>> /\ UNCHANGED whole /\ Quiet
           /\ text' = [text EXCEPT !.lines = Append(@, text.line), !.line = <<>>]

\* Bound: a behaviour uses the writer and the reader, or reads a text.
Next == \/ /\ whole = "none"
           /\ \/ OpenWriter \/ AppendRecord \/ WriteRecord \/ FlushBuffer \/ DestroyWriter
              \/ OpenReader \/ ReadRecords \/ TakeOne \/ CloseReader
              \/ \E n \in 1 .. 2 : FlushOutside(n)
        \/ EndText
        \/ \E n \in 1 .. 2 : ReadText(n)
        \/ \E t \in Texts : writer.next = 1 /\ writer.zp = "none" /\ OpenText(t)
-----------------------------------------------------------------------------
TypeOK == /\ writer.zp \in {"none", "ok", "failed"} /\ writer.next \in 1 .. MaxRecords + 2
          /\ Len(writer.buffer) <= Len1 /\ Len(reader.buffer) <= Len2 /\ reader.pos <= Len(disk)

\* The first k characters of w without carriage returns; the text of lines,
\* each with its end; and that they are the lines of w, whose last may have none.
Bare(w) == LET bare[k \in 0 .. Len(w)] == IF k = 0 THEN <<>>
                                          ELSE IF w[k] = "cr" THEN bare[k - 1] ELSE Append(bare[k - 1], w[k])
           IN bare
Unsplit(ls) == LET joined[k \in 0 .. Len(ls)] == IF k = 0 THEN <<>> ELSE joined[k - 1] \o Append(ls[k], "nl")
               IN joined[Len(ls)]
AreLines(ls, w) ==
    /\ \A i \in DOMAIN ls : \A j \in DOMAIN ls[i] : ls[i][j] # "nl"
    /\ LET s == Bare(w)[Len(w)]
       IN Unsplit(ls) = IF s = <<>> \/ s[Len(s)] = "nl" THEN s ELSE Append(s, "nl")

(* While the caller saw no failure and kept to one way of writing, the file  *)
(* followed by the buffer is what was given, in order and once, whatever the *)
(* buffer held when a stream was opened.                                     *)
GivenKept == writer.zp # "none" /\ ~upset => disk \o writer.buffer = given

(* What a reader handed out, with what it holds, is the beginning of the     *)
(* file, if no record of an earlier stream or read was left in it.           *)
TakenInOrder == reader.zp = "ok" /\ ~reader.old => taken \o Rest = Head1(disk, reader.pos)

(* Nothing is lost on the way through a writer or a reader, and read_gz_file *)
(* answers the lines of the text without carriage returns, however gzread    *)
(* cuts it.                                                                  *)
NothingLost ==
    /\ GivenKept /\ TakenInOrder
    /\ whole # "none" /\ text.left = <<>> /\ text.line = <<>> => AreLines(text.lines, whole)
=============================================================================
