----------------------------- MODULE MCWavFile ------------------------------
(* WavFile on every file of up to three chunks of some kinds, and on files   *)
(* of the usual kinds cut anywhere.                                          *)
EXTENDS WavFile

\* The letters' codes in four bits.
RiffId == <<2, 9, 6, 6>>
WaveId == <<7, 1, 6, 5>>
FmtLetters == <<6, 13, 4, 0>>
DataLetters == <<4, 1, 4, 1>>
ListId == <<12, 9, 3, 4>>

Written == {<<>>, <<5>>, <<-128, 127, -1>>}

Chunk(id, body) == [id |-> id, size |-> Len(body), body |-> body]
Mono16 == Chunk(FmtId, Fmt(1, 1, 9, 16))
Usual == { Mono16, Chunk(DataId, <<1, 2, 3, 4>>), Chunk(ListId, <<7, 8, 9>>) }

\* What spells a data chunk.
Spelled == DataId \o U32(2) \o <<7, 8>>

Unusual ==
  { Chunk(FmtId, Fmt(1, 2, 9, 16)), Chunk(FmtId, Fmt(1, 1, 9, 8)), Chunk(FmtId, Fmt(3, 1, 9, 16)),
    Chunk(FmtId, SubSeq(Fmt(1, 1, 9, 16), 1, 14)), Chunk(FmtId, Fmt(1, 1, 9, 16) \o <<0, 0>>),
    Chunk(FmtId, Fmt(1, 1, 9, 16) \o <<0>>),
    Chunk(DataId, <<>>), Chunk(DataId, <<1, 2, 3>>),
    Chunk(ListId, <<>>), Chunk(ListId, Spelled), Chunk(ListId, <<9>> \o Spelled) }
  \cup [id : {ListId}, size : {SizeMod - 1, SizeMod - 8}, body : {<<>>, <<7, 8>>, Spelled}]
  \cup [id : {DataId}, size : {10}, body : {<<1, 2>>}]

UpTo(n, kinds) == UNION {[1 .. m -> kinds] : m \in 0 .. n}

Files ==
  { [first |-> Riff, chunks |-> c, length |-> Len(Layout(Riff, c))] :
      c \in UpTo(3, Usual \cup Unusual) }
  \cup [first : {ListId}, chunks : {<<>>}, length : {12}]
  \cup UNION { [first : {Riff}, chunks : {c}, length : 0 .. Len(Layout(Riff, c))] :
                 c \in UpTo(3, Usual) }

ASSUME OfTheTheorems == SizesFit /\ BodiesFit
=============================================================================
