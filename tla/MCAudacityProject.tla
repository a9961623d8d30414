-------------------------- MODULE MCAudacityProject --------------------------
(* Values for TLC: three files, two of the names of tracks. *)
EXTENDS AudacityProject, TLC

CONSTANTS hello, yes, noise, ann, bob

MCFile == {hello, yes, noise}
MCName == {ann, bob}
MCDuration == (hello :> 1) @@ (yes :> 2) @@ (noise :> 1)
MCSilent == {noise}

B(kind, start, f) == [kind |-> kind, start |-> start, file |-> f]
ClipAt(o, b) == [offset |-> o, blocks |-> b]
Offsets == {<<>>, <<1>>, <<3>>}

\* Blocks of one clip: one, two that follow each other in either order of the text,
\* two that leave a gap, and one behind silence.
Alone(f) == <<B("simple", <<>>, f)>>
InText == <<B("simple", <<0>>, hello), B("simple", <<1>>, yes)>>
OutOfText == <<B("alias", <<1>>, yes), B("simple", <<>>, hello)>>
Gap == <<B("simple", <<0>>, hello), B("simple", <<2>>, yes)>>
BehindSilence == <<B("silent", <<0>>, hello), B("alias", <<1>>, yes)>>

\* Pairs of clips, in any order of the project's text.
TwoClips ==
  {<<ClipAt(o, Alone(f)), ClipAt(q, b)>> :
     o \in Offsets, q \in Offsets, f \in {hello, noise},
     b \in {Alone(yes), InText, OutOfText, Gap, BehindSilence}}
OneClip == {<<ClipAt(o, Alone(f))>> : o \in Offsets, f \in MCFile}

Sends(aups, zipped, chunk, waves, imports) ==
  [aups |-> aups, zipped |-> zipped, chunk |-> chunk, waves |-> waves, imports |-> imports]

Standard ==
  {Sends(1, z, u, <<[name |-> ann, clips |-> c], [name |-> n, clips |-> d]>>, <<>>) :
     z \in {MCFile, MCFile \ {hello}, MCFile \ {yes}}, u \in {1, 2}, c \in TwoClips,
     d \in OneClip, n \in MCName}
Craig ==
  {Sends(1, z, u, <<>>, <<[name |-> ann, file |-> hello, offset |-> o],
                          [name |-> n, file |-> yes, offset |-> q]>>) :
     z \in {MCFile, {hello}, {noise}}, u \in {1, 2}, o \in Offsets, q \in Offsets,
     n \in MCName}
Refused == {Sends(n, MCFile, 1, <<>>, <<>>) : n \in {0, 1, 2}}

MCProjects == Standard \cup Craig \cup Refused
=============================================================================
