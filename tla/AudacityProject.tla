--------------------------- MODULE AudacityProject ---------------------------
(***************************************************************************)
(* What AudioScribe makes of a zipped Audacity project: audacity_parser    *)
(* rebuilds one file of audio per track from the blocks of its clips, or   *)
(* takes the files a Craig recording imports, and conversation_merger      *)
(* transcribes the tracks side by side and merges what was said in the     *)
(* order of time.                                                          *)
(*                                                                         *)
(* Time is in whole seconds. A file of audio says one thing, at its        *)
(* beginning, and the thing said is the file's name. An alias block plays  *)
(* its file whole. A provider times what it hears by the chunk of audio it *)
(* is in: HF_CHUNK_LENGTH_SECONDS long for Hugging Face, which is told in  *)
(* project.chunk, and of one second for those that time each segment.      *)
(***************************************************************************)
EXTENDS Naturals, Sequences, FiniteSets, SequencesExt

CONSTANTS
  File,      \* the names of audio files
  Name,      \* the names of tracks
  Projects,  \* the projects ever sent
  Duration,  \* how long each file is
  Silent     \* the files a transcriber hears nothing in

\* An attribute of the project's XML: one number, or none.
Attribute == {a \in Seq(Nat) : Len(a) <= 1}

\* A block says its file from the attribute start of its clip on; one of silence has
\* none, whatever stands here. start and offset are where Audacity shows them, and
\* need not agree with how long the files are.
Block == [kind : {"simple", "alias", "silent"}, start : Attribute, file : File]
WaveClip == [offset : Attribute, blocks : Seq(Block)]
Wave == [name : Name, clips : Seq(WaveClip)]
Import == [name : Name, file : File, offset : Attribute]

ASSUME ProjectsAssumption ==
  \A p \in Projects :
    /\ p.aups \in Nat /\ p.zipped \subseteq File /\ p.chunk \in Nat \ {0}
    /\ p.imports \in Seq(Import) /\ p.waves \in Seq(Wave)
ASSUME FilesAssumption == Duration \in [File -> Nat \ {0}] /\ Silent \subseteq File

VARIABLES
  project,  \* the project sent
  stage,    \* where its handling is
  done,     \* how many of its elements have been extracted
  tracks,   \* the tracks extracted, in the order of the dictionary
  heard,    \* the tracks whose transcription has returned, in that order
  script    \* the lines of the merged transcript

handling == <<project, stage, done, tracks, heard, script>>
-----------------------------------------------------------------------------
Segment == [text : File, start : Nat]

ProjectTypeOK ==
  /\ project \in Projects
  /\ stage \in {"unzip", "extract", "transcribe", "merged", "failed"}
  /\ done \in Nat
  /\ \A i \in DOMAIN tracks :
       tracks[i].name \in Name /\ tracks[i].audio \in Seq(Segment)
  /\ heard \in Seq(DOMAIN tracks) /\ IsInjective(heard)
  /\ \A i \in DOMAIN script :
       script[i].speaker \in Name /\ script[i].text \in File \ Silent

ProjectInit ==
  /\ project \in Projects
  /\ stage = "unzip" /\ done = 0 /\ tracks = <<>> /\ heard = <<>> /\ script = <<>>
-----------------------------------------------------------------------------
(* Extraction *)

\* list.sort by the keys given beside the elements, which is stable: an element
\* stands behind as many as have a smaller key, or its own and stood before it.
Place(key, i) ==
  Cardinality({k \in DOMAIN key : key[k] < key[i] \/ (key[k] = key[i] /\ k <= i)})
Sorted(s, key) == [n \in DOMAIN s |-> s[CHOOSE i \in DOMAIN s : Place(key, i) = n]]

\* The members of S among the first n of s: a comprehension with an if.
Chosen(s, S) ==
  LET kept[n \in 0 .. Len(s)] ==
        IF n = 0 THEN <<>>
        ELSE kept[n - 1] \o (IF s[n] \in S THEN <<s[n]>> ELSE <<>>)
  IN kept

\* float(clip.attrib.get("offset", 0.0)), int(b.attrib.get("start", 0))
Number(a) == IF a = <<>> THEN 0 ELSE a[1]

\* _parse_clips_from_track, of one clip: its blocks in the order of their starts, and
\* of these the files of both kinds of block that have one.
InTime(blocks) == Sorted(blocks, [b \in DOMAIN blocks |-> Number(blocks[b].start)])
Filed(blocks) == Chosen(InTime(blocks), {b \in Block : b.kind # "silent"})[Len(blocks)]
AuFiles(blocks) == [n \in DOMAIN Filed(blocks) |-> Filed(blocks)[n].file]
Clip == [offset : Nat, au_files : Seq(File)]
ParseClips(clips) ==
  [k \in DOMAIN clips |->
    [offset |-> Number(clips[k].offset), au_files |-> AuFiles(clips[k].blocks)]]

\* Audio under construction: what is said in it, and its true length.
Silence(n) == [said |-> <<>>, length |-> n]
Concat(x, y) ==
  [said |-> x.said \o [i \in DOMAIN y.said |-> [y.said[i] EXCEPT !.start = @ + x.length]],
   length |-> x.length + y.length]
Audio(f) == [said |-> <<[text |-> f, start |-> 0]>>, length |-> Duration[f]]

\* valid_paths, and what _assemble_clip_blocks makes of the first n of them.
There(au_files) == Chosen(au_files, project.zipped)[Len(au_files)]
Assembled(files) ==
  LET wav[n \in 0 .. Len(files)] ==
        IF n = 0 THEN Silence(0) ELSE Concat(wav[n - 1], Audio(files[n]))
  IN wav

AssembleClipBlocks(au_files) == Assembled(There(au_files))[Len(There(au_files))]

\* Mutant: the next gap is counted from the beginning of the clip.
PlaceClipFromStart(t, clip) ==
  LET padded == Concat(t.audio, Silence(IF clip.offset > t.now THEN clip.offset - t.now ELSE 0))
      wav == AssembleClipBlocks(clip.au_files)
  IN [audio |-> Concat(padded, wav), now |-> clip.offset]

\* The loop of _build_track_from_clips: a gap before the clip, then the clip; one
\* without files leaves current_time_sec alone.
PlaceClip(t, clip) ==
  LET gap == IF clip.offset > t.now THEN clip.offset - t.now ELSE 0
      padded == Concat(t.audio, Silence(gap))
      wav == AssembleClipBlocks(clip.au_files)
  IN IF wav.length = 0 THEN [t EXCEPT !.audio = padded]
     ELSE [audio |-> Concat(padded, wav), now |-> clip.offset + wav.length]

\* The track after the first n clips in the order of their offsets.
ByOffset(clips) == Sorted(clips, [k \in DOMAIN clips |-> clips[k].offset])
Built(clips) ==
  LET t[n \in 0 .. Len(clips)] ==
        IF n = 0 THEN [audio |-> Silence(0), now |-> 0]
        ELSE PlaceClip(t[n - 1], ByOffset(clips)[n])
  IN t

BuildTrackFromClips(clips) == Built(clips)[Len(clips)].audio

\* tracks[track_name] = ...
SetTrack(name, audio) ==
  IF \E i \in DOMAIN tracks : tracks[i].name = name
    THEN [i \in DOMAIN tracks |->
            IF tracks[i].name = name THEN [name |-> name, audio |-> audio] ELSE tracks[i]]
    ELSE Append(tracks, [name |-> name, audio |-> audio])

\* _safe_zip_extract may refuse the zip; _find_single_aup_path wants one project.
Unzip ==
  /\ stage = "unzip"
  /\ stage' \in (IF project.aups = 1 THEN {"extract", "failed"} ELSE {"failed"})
  /\ UNCHANGED <<project, done, tracks, heard, script>>

Elements == IF project.imports # <<>> THEN project.imports ELSE project.waves

\* _process_craig_imports
ExtractImport ==
  LET i == project.imports[done + 1] IN
  /\ stage = "extract" /\ project.imports # <<>> /\ done < Len(Elements)
  /\ tracks' = IF i.file \in project.zipped
               THEN SetTrack(i.name, Concat(Silence(Number(i.offset)), Audio(i.file)).said)
               ELSE tracks
  /\ done' = done + 1
  /\ UNCHANGED <<project, stage, heard, script>>

\* _process_standard_wavetracks; a track without audio is skipped.
ExtractWave ==
  LET w == project.waves[done + 1]
      audio == BuildTrackFromClips(ParseClips(w.clips)) IN
  /\ stage = "extract" /\ project.imports = <<>> /\ done < Len(Elements)
  /\ tracks' = IF audio.length = 0 THEN tracks ELSE SetTrack(w.name, audio.said)
  /\ done' = done + 1
  /\ UNCHANGED <<project, stage, heard, script>>

\* ffmpeg or ffprobe fails, or the time they may take is over.
ExtractFails ==
  /\ stage = "extract" /\ done < Len(Elements) /\ stage' = "failed"
  /\ UNCHANGED <<project, done, tracks, heard, script>>

\* No track at all is an error of the request.
Extracted ==
  /\ stage = "extract" /\ done = Len(Elements)
  /\ stage' = IF tracks = <<>> THEN "failed" ELSE "transcribe"
  /\ UNCHANGED <<project, done, tracks, heard, script>>
-----------------------------------------------------------------------------
(* Transcription and merge *)

\* _transcribe_one_track; the tracks return in any order.
TranscribeOneTrack(i) ==
  /\ stage = "transcribe" /\ i \notin ToSet(heard)
  /\ \/ heard' = Append(heard, i) /\ UNCHANGED stage
     \/ stage' = "failed" /\ UNCHANGED heard
  /\ UNCHANGED <<project, done, tracks, script>>

\* The beginning of the chunk that s is in.
Timed(s) == s - (s % project.chunk)

\* The segments of the first n tracks in the order of gather, with their speakers.
TrackLines(t) ==
  [k \in DOMAIN t.audio |->
    [speaker |-> t.name, text |-> t.audio[k].text, start |-> Timed(t.audio[k].start)]]
AllSegments ==
  LET all[n \in 0 .. Len(tracks)] ==
        IF n = 0 THEN <<>> ELSE all[n - 1] \o TrackLines(tracks[n])
  IN all

ByStart(lines) == Sorted(lines, [n \in DOMAIN lines |-> lines[n].start])

Line == [speaker : Name, text : File, start : Nat]
Told == {l \in Line : l.text \notin Silent}

Merged ==
  LET lines == ByStart(AllSegments[Len(tracks)]) IN Chosen(lines, Told)[Len(lines)]

MergeTracks ==
  /\ stage = "transcribe" /\ ToSet(heard) = DOMAIN tracks
  /\ script' = Merged /\ stage' = "merged"
  /\ UNCHANGED <<project, done, tracks, heard>>

ProjectNext ==
  \/ Unzip \/ ExtractImport \/ ExtractWave \/ ExtractFails \/ Extracted \/ MergeTracks
  \/ \E i \in DOMAIN tracks : TranscribeOneTrack(i)

ProjectSpec == ProjectInit /\ [][ProjectNext]_handling
-----------------------------------------------------------------------------
(* What a transcript of the project is, said of its text: of clips and blocks as
   they stand there, without tracks, files of audio or their order *)

From(block) == Number(block.start)
Until(block) == From(block) + Duration[block.file]
Sounds(block) == block.kind # "silent" /\ block.file \in project.zipped

\* What can be heard of clips: their blocks of which there is a file, each by its
\* clip and its place in the clip's text.
Pieces(clips) ==
  UNION {{k} \X {b \in DOMAIN clips[k].blocks : Sounds(clips[k].blocks[b])} :
           k \in DOMAIN clips}

\* What can be heard of an element: the imported file, or the pieces of its clips.
Heard(i) ==
  LET e == Elements[i] IN
  IF project.imports # <<>> THEN {x \in {<<1, 1>>} : e.file \in project.zipped}
  ELSE Pieces(e.clips)

TextOf(i, x) ==
  LET e == Elements[i] IN
  IF project.imports # <<>> THEN e.file ELSE e.clips[x[1]].blocks[x[2]].file

\* When the piece's clip begins, and when the project says the piece is heard.
ClipOf(i, x) ==
  LET e == Elements[i] IN
  Number(IF project.imports # <<>> THEN e.offset ELSE e.clips[x[1]].offset)
TimeOf(i, x) ==
  IF project.imports # <<>> THEN ClipOf(i, x)
  ELSE ClipOf(i, x) + From(Elements[i].clips[x[1]].blocks[x[2]])

LineOf(i, x) ==
  [speaker |-> Elements[i].name, text |-> TextOf(i, x), start |-> Timed(TimeOf(i, x))]

NamesDiffer == \A i, k \in DOMAIN Elements : i # k => Elements[i].name # Elements[k].name

\* No two blocks of a clip are heard at once, and no two clips.
BlocksAreApart(blocks) ==
  \A a, b \in DOMAIN blocks : a # b /\ Sounds(blocks[a]) /\ Sounds(blocks[b]) =>
    Until(blocks[a]) <= From(blocks[b]) \/ Until(blocks[b]) <= From(blocks[a])
ClipsAreApart(clips) ==
  \A k, l \in DOMAIN clips : k # l /\ Number(clips[k].offset) <= Number(clips[l].offset) =>
    \A b \in DOMAIN clips[k].blocks : Sounds(clips[k].blocks[b]) =>
      Number(clips[k].offset) + Until(clips[k].blocks[b]) <= Number(clips[l].offset)

\* The clip is heard from its beginning to this block's: every block up to it is
\* there, and begins with the clip or where another one ends.
HeardUpTo(blocks, b) ==
  \A a \in DOMAIN blocks : From(blocks[a]) <= From(blocks[b]) =>
    /\ Sounds(blocks[a])
    /\ From(blocks[a]) = 0 \/ \E c \in DOMAIN blocks : Until(blocks[c]) = From(blocks[a])

\* No clip that begins before clip k, or with it, is skipped for having no file.
NoneSkipped(clips, k) ==
  \A l \in DOMAIN clips : l # k /\ Number(clips[l].offset) <= Number(clips[k].offset) =>
    \E b \in DOMAIN clips[l].blocks : Sounds(clips[l].blocks[b])

\* What is missing before the piece x, if anything, cannot have moved it: an imported
\* file stands alone; a block has none missing before it in its clip, and no clip.
IsApart(i) ==
  project.imports = <<>> =>
    /\ ClipsAreApart(Elements[i].clips)
    /\ \A k \in DOMAIN Elements[i].clips : BlocksAreApart(Elements[i].clips[k].blocks)
InItsClip(i, x) ==
  project.imports = <<>> => HeardUpTo(Elements[i].clips[x[1]].blocks, x[2])
InItsTrack(i, x) == project.imports = <<>> => NoneSkipped(Elements[i].clips, x[1])
Undisturbed(i, x) == IsApart(i) /\ InItsClip(i, x) /\ InItsTrack(i, x)

\* How often the element's file is there to be heard.
TimesThere(i, f) ==
  IF f \in Silent THEN 0 ELSE Cardinality({x \in Heard(i) : TextOf(i, x) = f})

NothingIsLeftOut ==
  \A i \in DOMAIN Elements, f \in File :
    TimesThere(i, f) = Cardinality({n \in DOMAIN script :
                         script[n].speaker = Elements[i].name /\ script[n].text = f})

\* By time, and those who begin together in the order of their tracks.
Chronological ==
  \A i, k \in DOMAIN script : i < k =>
    \/ script[i].start < script[k].start
    \/ /\ script[i].start = script[k].start
       /\ \E a, b \in DOMAIN Elements :
            a <= b /\ Elements[a].name = script[i].speaker
                   /\ Elements[b].name = script[k].speaker

\* A line is of a piece, and not before the piece's clip begins: the chunk it is
\* timed by ends later.
NeverEarly ==
  \A n \in DOMAIN script : \E i \in DOMAIN Elements : \E x \in Heard(i) :
    /\ script[n].speaker = Elements[i].name /\ script[n].text = TextOf(i, x)
    /\ ClipOf(i, x) < script[n].start + project.chunk

\* What nothing missing before it can have moved has the time the project gives it.
HasItsTime(i, x) == TextOf(i, x) \notin Silent => LineOf(i, x) \in ToSet(script)
AtItsTime ==
  \A i \in DOMAIN Elements : \A x \in Heard(i) : Undisturbed(i, x) => HasItsTime(i, x)

\* "then merge segments chronologically" (conversation_merger.py): with tracks of
\* different names the transcript says everything of which there is a file once and
\* in the order of its times, whatever track returned first. These times are the
\* project's own for all that nothing missing stands before: a missing block moves
\* the rest of its clip, a skipped clip the clips behind it, and neither moves
\* anything before its clip begins.
TranscriptIsTheConversation ==
  stage = "merged" /\ NamesDiffer =>
    NothingIsLeftOut /\ Chronological /\ NeverEarly /\ AtItsTime

\* Not so behind what is missing. A clip without files that another follows has its
\* gap counted twice (the early continue of _build_track_from_clips), and a block
\* without a file leaves none (_assemble_clip_blocks): each of these is violated.
SkippedClipLeavesItsGap ==
  stage = "merged" /\ NamesDiffer =>
    \A i \in DOMAIN Elements : \A x \in Heard(i) :
      IsApart(i) /\ InItsClip(i, x) => HasItsTime(i, x)
MissingBlockLeavesItsGap ==
  stage = "merged" /\ NamesDiffer =>
    \A i \in DOMAIN Elements : \A x \in Heard(i) :
      IsApart(i) /\ InItsTrack(i, x) => HasItsTime(i, x)
=============================================================================
