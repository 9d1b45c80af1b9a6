------------------------------ MODULE WavFile -------------------------------
(***************************************************************************)
(* The WAV writer, what may come of its file, and the reader, chunk by     *)
(* chunk.  A file is a sequence of bytes; numbers are little-endian, with  *)
(* FieldBase 256 in the code and less in small instances, which makes      *)
(* samples and sizes shorter with it.  An id is four bytes like any other, *)
(* which a size or a body may spell too.                                   *)
(***************************************************************************)
EXTENDS Integers, Sequences, FiniteSetsExt

CONSTANTS
  FieldBase,
  Riff, Wave, FmtId, DataId,    \* "RIFF", "WAVE", "fmt ", "data"
  SampleRate,                   \* kSampleRateHz
  Recordings,                   \* bound: samples to write
  Chunks                        \* bound: sequences of chunks found in other files

WordMod == FieldBase * FieldBase          \* 2^16
SizeMod == WordMod * WordMod              \* 2^32

Bytes == 0 .. (FieldBase - 1)
Ids == [1 .. 4 -> Bytes]
Samples == (-(WordMod \div 2)) .. (WordMod \div 2 - 1)

Channels == 1
BitsPerSample == 16

ASSUME WavAssumption ==
  /\ FieldBase \in Nat /\ BitsPerSample < WordMod
  /\ {Riff, Wave, FmtId, DataId} \subseteq Ids /\ FmtId # DataId
  /\ SampleRate \in 0 .. (SizeMod - 1)
  /\ Recordings \subseteq Seq(Samples)
  /\ Chunks \subseteq
       [first : Ids, length : Nat,
        chunks : Seq([id : Ids, size : 0 .. (SizeMod - 1), body : Seq(Bytes)])]

VARIABLES
  source,                       \* history: what the file was made from
  file, pos,
  have_fmt, have_data, result,  \* WavData, without its samples
  samples,
  outcome                       \* "absent", "opened", "reading"; "read" or "refused"

vars == <<source, file, pos, have_fmt, have_data, result, samples, outcome>>

NoResult == [num_channels |-> 0, sample_rate |-> 0, bits_per_sample |-> 0]
-----------------------------------------------------------------------------
(* The writer. *)

U16(v) == <<v % FieldBase, v \div FieldBase>>
U32(v) == U16(v % WordMod) \o U16(v \div WordMod)

\* Each sample's two bytes.
Words(ints) ==
  [k \in 1 .. 2 * Len(ints) |-> U16(ints[(k + 1) \div 2] % WordMod)[2 - (k % 2)]]

Fmt(format, channels, rate, bits) ==
  U16(format) \o U16(channels) \o U32(rate) \o U32((rate * Channels * 2) % SizeMod)
    \o U16(Channels * 2) \o U16(bits)

\* Fault: samples counted where bytes belong.
DataSamples(n) == n

DataBytes(n) == (2 * n) % SizeMod

WavBytes(rate, ints) ==
  Riff \o U32((36 + DataBytes(Len(ints))) % SizeMod) \o Wave
    \o FmtId \o U32(16) \o Fmt(1, Channels, rate, BitsPerSample)
    \o DataId \o U32(DataBytes(Len(ints))) \o Words(ints)

\* No result of fwrite or fclose is looked at: a full disk or a killed process leaves
\* any prefix.
Write(ints, length) ==
  /\ outcome = "absent" /\ outcome' = "opened"
  /\ length <= Len(WavBytes(SampleRate, ints))
  /\ file' = SubSeq(WavBytes(SampleRate, ints), 1, length)
  /\ source' = [written |-> TRUE, ints |-> ints, chunks |-> <<>>]
  /\ UNCHANGED <<pos, have_fmt, have_data, result, samples>>
-----------------------------------------------------------------------------
(* Files of other programs: chunks, each padded to an even length.  A size is *)
(* that of the body, or nothing like it.                                      *)

PadTo2(body) == IF Len(body) % 2 = 0 THEN body ELSE Append(body, 0)
Laid(chunk) == chunk.id \o U32(chunk.size) \o PadTo2(chunk.body)
RiffHead(first) == first \o U32(0) \o Wave

\* The bytes up to and with chunk k.
Layouts(first, chunks) ==
  LET upTo[k \in 0 .. Len(chunks)] ==
        IF k = 0 THEN RiffHead(first) ELSE upTo[k - 1] \o Laid(chunks[k])
  IN  upTo
Layout(first, chunks) == Layouts(first, chunks)[Len(chunks)]

Found(first, chunks, length) ==
  /\ outcome = "absent" /\ outcome' = "opened"
  /\ length <= Len(Layout(first, chunks))
  /\ file' = SubSeq(Layout(first, chunks), 1, length)
  /\ source' = [written |-> FALSE, ints |-> <<>>, chunks |-> chunks]
  /\ UNCHANGED <<pos, have_fmt, have_data, result, samples>>
-----------------------------------------------------------------------------
(* The reader. *)

ReadU16(offset) == file[pos + offset + 1] + FieldBase * file[pos + offset + 2]
ReadU32(offset) == ReadU16(offset) + WordMod * ReadU16(offset + 2)
HasTag(offset, id) == SubSeq(file, pos + offset + 1, pos + offset + 4) = id
ToSample(word) == IF word < WordMod \div 2 THEN word ELSE word - WordMod

ChunkSize == ReadU32(4)
ChunkThere == pos + 8 <= Len(file)
Whole == pos + 8 + ChunkSize <= Len(file)

Refuse == outcome' = "refused" /\ UNCHANGED <<pos, have_fmt, have_data, result, samples>>

ReadRiff ==
  /\ outcome = "opened"
  /\ IF Len(file) >= 12 /\ HasTag(0, Riff) /\ HasTag(8, Wave)
       THEN pos' = 12 /\ outcome' = "reading" /\ UNCHANGED <<have_fmt, have_data, result, samples>>
       ELSE Refuse
  /\ UNCHANGED <<source, file>>

NextChunk == outcome = "reading" /\ ~have_data /\ ChunkThere

\* The padding byte of an odd size stays unread.
ReadFmt ==
  /\ NextChunk /\ HasTag(0, FmtId)
  /\ IF ChunkSize >= 16 /\ Whole /\ ReadU16(8) = 1
       THEN /\ result' = [num_channels |-> ReadU16(10), sample_rate |-> ReadU32(12),
                          bits_per_sample |-> ReadU16(22)]
            /\ have_fmt' = TRUE /\ pos' = pos + 8 + ChunkSize
            /\ UNCHANGED <<have_data, samples, outcome>>
       ELSE Refuse
  /\ UNCHANGED <<source, file>>

ReadData ==
  /\ NextChunk /\ HasTag(0, DataId)
  /\ IF have_fmt /\ Whole
       THEN /\ samples' = [i \in 1 .. ChunkSize \div 2 |-> ToSample(ReadU16(6 + 2 * i))]
            /\ have_data' = TRUE /\ pos' = pos + 8 + ChunkSize
            /\ UNCHANGED <<have_fmt, result, outcome>>
       ELSE Refuse
  /\ UNCHANGED <<source, file>>

\* Faults: the padding forgotten, the size taken for a signed number.
Unpadded(size) == size
SignedSkip(size) == IF size < SizeMod \div 2 THEN size + (size % 2) ELSE size - SizeMod

\* The sum is one of 32-bit numbers.
Skip(size) == (size + (size % 2)) % SizeMod

\* fseek goes past the end of a file without an error, and fails before its start.
SkipChunk ==
  /\ NextChunk /\ ~HasTag(0, FmtId) /\ ~HasTag(0, DataId)
  /\ LET next == pos + 8 + Skip(ChunkSize) IN
       IF next < 0 THEN Refuse
       ELSE pos' = next /\ UNCHANGED <<have_fmt, have_data, result, samples, outcome>>
  /\ UNCHANGED <<source, file>>

EndOfChunks ==
  /\ outcome = "reading" /\ (have_data \/ ~ChunkThere)
  /\ outcome' = IF /\ have_fmt /\ have_data /\ result.num_channels = Channels
                   /\ result.bits_per_sample = BitsPerSample
                THEN "read" ELSE "refused"
  /\ UNCHANGED <<source, file, pos, have_fmt, have_data, result, samples>>
-----------------------------------------------------------------------------
WavInit ==
  /\ source = [written |-> FALSE, ints |-> <<>>, chunks |-> <<>>] /\ outcome = "absent"
  /\ file = <<>> /\ pos = 0 /\ have_fmt = FALSE /\ have_data = FALSE
  /\ result = NoResult /\ samples = <<>>

ReadNext == ReadRiff \/ ReadFmt \/ ReadData \/ SkipChunk \/ EndOfChunks

WavNext ==
  \/ \E ints \in Recordings : \E length \in 0 .. (44 + 2 * Len(ints)) : Write(ints, length)
  \/ \E found \in Chunks : Found(found.first, found.chunks, found.length)
  \/ ReadNext

WavSpec == WavInit /\ [][WavNext]_vars /\ WF_vars(ReadNext)
-----------------------------------------------------------------------------
(* Properties *)

Done == outcome \in {"read", "refused"}

\* What the receiver writes the sender reads back to the sample; of a file that was not
\* written to its end it reads nothing.
ReadsBack ==
  Done /\ source.written =>
    IF Len(file) = 44 + 2 * Len(source.ints)
      THEN outcome = "read" /\ samples = source.ints /\ result.sample_rate = SampleRate
      ELSE outcome = "refused"

\* A chunk as its writer laid it out, and the first one with samples.
IsData(k) == source.chunks[k].id = DataId
FirstData(k) == IsData(k) /\ \A j \in 1 .. (k - 1) : ~IsData(j)
InFile(k) ==
  Len(Layouts(Riff, source.chunks)[k - 1]) + 8 + source.chunks[k].size <= Len(file)

\* A 16-bit mono PCM description is the last before chunk k, and none before it is
\* short or not PCM.
Described(k) ==
  LET fmts == {j \in 1 .. (k - 1) : source.chunks[j].id = FmtId}
  IN  /\ fmts # {}
      /\ \A j \in fmts : source.chunks[j].size >= 16 /\ SubSeq(source.chunks[j].body, 1, 2) = U16(1)
      /\ LET body == source.chunks[Max(fmts)].body
         IN  SubSeq(body, 3, 4) = U16(Channels) /\ SubSeq(body, 15, 16) = U16(BitsPerSample)

Playable == /\ Len(file) >= 12 /\ SubSeq(file, 1, 4) = Riff
            /\ \E k \in DOMAIN source.chunks : FirstData(k) /\ InFile(k) /\ Described(k)

\* Sizes say what the bodies are, and no fmt chunk is padded.
Ordinary ==
  \A k \in DOMAIN source.chunks :
    /\ source.chunks[k].size = Len(source.chunks[k].body)
    /\ source.chunks[k].id = FmtId => source.chunks[k].size % 2 = 0

SamplesOf(k) ==
  LET body == source.chunks[k].body
  IN  Len(samples) = Len(body) \div 2 /\ Words(samples) = SubSeq(body, 1, 2 * Len(samples))

\* An ordinary file, whatever its bodies spell, is read exactly when its first data
\* chunk is complete and comes after a 16-bit mono PCM description, and what is read
\* are that chunk's samples.
AcceptsExactly ==
  Done /\ ~source.written /\ Ordinary =>
    /\ outcome = "read" <=> Playable
    /\ outcome = "read" => \E k \in DOMAIN source.chunks : FirstData(k) /\ SamplesOf(k)

\* The reader comes to an end, whatever the sizes in the file.
ReadEnds == outcome = "opened" ~> Done
-----------------------------------------------------------------------------
(* What the theorems about the properties suppose of the bounds. *)

\* A recording's bytes fit the 32 bits of a size.
SizesFit == \A ints \in Recordings : 2 * Len(ints) < SizeMod

\* A padded body's length is a 32-bit number, so that skipping it does not wrap.
BodiesFit ==
  \A f \in Chunks : \A k \in DOMAIN f.chunks : Len(f.chunks[k].body) + 1 < SizeMod
=============================================================================
