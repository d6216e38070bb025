-------------------------------- MODULE Assets --------------------------------
(***************************************************************************)
(* What gravityon keeps of an application's data (src/gravityon/           *)
(* gravityon.c): vertices packed by gravCompressVertices and unpacked by   *)
(* gravDecompressVertices, and the pipeline cache, keys touched in memory, *)
(* saved to a file and loaded from it by this run of the application or    *)
(* by the next.                                                            *)
(*                                                                         *)
(* One client.  Files may not open; a write may stop short, with or        *)
(* without the caller being told, and so may a read.  A byte is a number,  *)
(* a key a sequence of them, none the newline.                             *)
(***************************************************************************)
EXTENDS Integers, Sequences, FiniteSets, SequencesExt

CONSTANTS
  Bytes,              \* the bytes of vertices
  MAX_INPUT,          \* bound: how many of them
  MAX_RUN,            \* the longest run packed as one, 255
  Letters,            \* the bytes of keys
  MAX_KEY,            \* bound: the length of a key
  MAX_BYTES           \* bound: the size of a cache

NEWLINE == 10
ASSUME AssetsAssumption ==
  /\ {MAX_INPUT, MAX_KEY, MAX_BYTES} \subseteq Nat \ {0}
  /\ MAX_RUN \in 3..255
  /\ Bytes \cup Letters \subseteq 0..255
  /\ NEWLINE \notin Letters

VARIABLES
  packed,             \* the packed vertices and how; Nothing before
  cache,              \* the GravPipelineCache: its keys, or Closed
  file,               \* the cache's file: its bytes, or NoCacheFile
  reply,              \* of the last call: its name, outcome and arguments
  input,              \* history: the vertices packed
  known, saved,       \* history: the keys the cache and its file must have
  touched,            \* history: the keys touched, ever
  torn                \* history: what a write cut short was loaded

assetsVars == <<packed, cache, file, reply, input, known, saved, touched, torn>>

Nothing == [mode |-> "nothing", bytes |-> <<>>]
Closed == [open |-> FALSE, keys |-> <<>>]
NoCacheFile == [there |-> FALSE, bytes |-> <<>>, whole |-> TRUE]
NoReply == [op |-> "none"]

AssetsInit ==
  /\ packed = Nothing /\ cache = Closed /\ file = NoCacheFile /\ reply = NoReply
  /\ input = <<>> /\ known = {} /\ saved = {} /\ touched = {} /\ torn = FALSE

Replied ==
  /\ reply # NoReply /\ reply' = NoReply
  /\ UNCHANGED <<packed, cache, file, input, known, saved, touched, torn>>

----------------------------------------------------------------------------
(* Vertices.  A run of three bytes or more is packed as 0, its length and  *)
(* its byte; any other byte as 1 and itself.                               *)
RunAt(s, i) ==
  CHOOSE n \in 1..(Len(s) + 1 - i) :
    /\ \A k \in i..(i + n - 1) : s[k] = s[i]
    /\ n <= MAX_RUN
    /\ i + n > Len(s) \/ s[i + n] # s[i] \/ n = MAX_RUN

\* The size asked for: a run of two is counted as three bytes.
grav_rle_size(s) ==
  LET from[i \in 1..(Len(s) + 1)] ==
        IF i > Len(s) THEN 0
        ELSE LET run == RunAt(s, i)
             IN  (IF run >= 3 THEN 3 ELSE run + 1) + from[i + run]
  IN  from[1]

PackedFrom(s) ==
  LET from[i \in 1..(Len(s) + 1)] ==
        IF i > Len(s) THEN <<>>
        ELSE LET run == RunAt(s, i)
             IN  (IF run >= 3 THEN <<0, run, s[i]>>
                  ELSE FlattenSeq([k \in 1..run |-> <<1, s[i]>>])) \o from[i + run]
  IN  from[1]

(* gravCompressVertices.  Rooms between what grav_rle_size asks for and    *)
(* what is written are left out: in them the code writes past the end.     *)
CompressVertices ==
  /\ reply = NoReply /\ cache = Closed /\ file = NoCacheFile /\ packed = Nothing          \* bound
  /\ \E s \in BoundedSeq(Bytes, MAX_INPUT), mode \in {"none", "quantized16", "other"} :
       \E room \in {Len(s) - 1, grav_rle_size(s) - 1, 2 * Len(s)} \cap Nat :
         LET result == CASE mode = "none" -> IF room < Len(s) THEN "out of range" ELSE "success"
                         [] mode = "quantized16" ->
                              IF room < grav_rle_size(s) THEN "out of range" ELSE "success"
                         [] OTHER -> "unsupported"
         IN  /\ result = "success" => room >= 2 * Len(s) \/ mode = "none"
             /\ reply' = [op |-> "pack", result |-> result]
             /\ IF result = "success"
                THEN /\ input' = s
                     /\ packed' = [mode |-> mode, bytes |-> IF mode = "none" THEN s ELSE PackedFrom(s)]
                ELSE UNCHANGED <<input, packed>>
  /\ UNCHANGED <<cache, file, known, saved, touched, torn>>

Fill(b, n) == [k \in 1..n |-> b]

\* One record unpacked: d is [i, out, result], the next byte and what is done.
Unpack1(src, room, original, d) ==
  LET left == (IF room < original THEN room ELSE original) - Len(d.out)
  IN  CASE src[d.i] = 0 /\ d.i + 2 > Len(src) -> [d EXCEPT !.result = "invalid"]
        [] src[d.i] = 0 /\ d.i + 2 <= Len(src) ->
             IF src[d.i + 1] > left THEN [d EXCEPT !.result = "out of range"]
             ELSE [d EXCEPT !.i = @ + 3, !.out = @ \o Fill(src[d.i + 2], src[d.i + 1])]
        [] src[d.i] = 1 ->
             IF d.i + 1 > Len(src) \/ Len(d.out) >= room THEN [d EXCEPT !.result = "out of range"]
             ELSE [d EXCEPT !.i = @ + 2, !.out = Append(@, src[d.i + 1])]
        [] OTHER -> [d EXCEPT !.result = "invalid"]

\* As many records as there are, or bytes asked for.
UnpackedSoFar(src, room, original) ==
  LET upTo[n \in 0..Len(src)] ==
        IF n = 0 THEN [i |-> 1, out |-> <<>>, result |-> "success"]
        ELSE LET d == upTo[n - 1]
             IN  IF d.result # "success" \/ d.i > Len(src) \/ Len(d.out) >= original THEN d
                 ELSE Unpack1(src, room, original, d)
  IN  upTo[Len(src)]

\* gravDecompressVertices; its mutant UnpackedSoFar takes the end of the input for the end.
Unpacked(src, room, original) ==
  LET end == UnpackedSoFar(src, room, original)
  IN  IF end.result = "success" /\ Len(end.out) # original THEN [end EXCEPT !.result = "invalid"]
      ELSE end

\* The packed bytes may have come only in part.
DecompressVertices ==
  /\ reply = NoReply /\ packed # Nothing
  /\ \E src \in Prefixes(packed.bytes), room, original \in {Len(input) - 1, Len(input)} \cap Nat :
       LET u == CASE packed.mode = "quantized16" -> Unpacked(src, room, original)
                  [] packed.mode = "none" ->
                       IF room < original \/ Len(src) < original THEN [result |-> "out of range", out |-> <<>>]
                       ELSE [result |-> "success", out |-> SubSeq(src, 1, original)]
       IN  reply' = [op |-> "unpack", src |-> src, room |-> room, original |-> original,
                    result |-> u.result, out |-> u.out]
  /\ UNCHANGED <<packed, cache, file, input, known, saved, touched, torn>>

----------------------------------------------------------------------------
(* The pipeline cache: its keys, a line each, in one piece of memory.      *)
\* Bound: a client's keys have their letters in order; one key may be part of another.
Keys == {key \in UNION {[1..n -> Letters] : n \in 1..MAX_KEY} :
           \A i, j \in DOMAIN key : i < j => key[i] < key[j]}
grav_bytes_contain(bytes, key) ==
  \E i \in 1..(Len(bytes) + 1 - Len(key)) : SubSeq(bytes, i, i + Len(key) - 1) = key
Newlines(bytes) == {i \in DOMAIN bytes : bytes[i] = NEWLINE}

CreatePipelineCache ==
  /\ reply = NoReply /\ ~cache.open /\ packed = Nothing          \* bound
  /\ cache' = [open |-> TRUE, keys |-> <<>>]
  /\ known' = {} /\ torn' = FALSE
  /\ UNCHANGED <<packed, file, reply, input, saved, touched>>

\* gravDestroyPipelineCache, or the end of the application: nothing is saved.
DestroyPipelineCache ==
  /\ reply = NoReply /\ cache.open
  /\ cache' = Closed /\ known' = {} /\ torn' = FALSE
  /\ UNCHANGED <<packed, file, reply, input, saved, touched>>

\* Mutant: the keys of a file are told apart by where they are in it.
TouchedUnended(keys, key) == IF grav_bytes_contain(keys, key) THEN keys ELSE keys \o key
Touched(keys, key) == IF grav_bytes_contain(keys, key) THEN keys ELSE keys \o Append(key, NEWLINE)

PipelineCacheTouch ==
  /\ reply = NoReply /\ cache.open
  /\ \E key \in Keys \cup {<<>>} :
       IF key = <<>> THEN /\ reply' = [op |-> "touch", result |-> "invalid"]
                          /\ UNCHANGED <<cache, known, touched>>
       ELSE \/ /\ ~grav_bytes_contain(cache.keys, key)       \* realloc fails
               /\ reply' = [op |-> "touch", result |-> "out of memory"]
               /\ UNCHANGED <<cache, known, touched>>
            \/ /\ Len(Touched(cache.keys, key)) <= MAX_BYTES
               /\ cache' = [cache EXCEPT !.keys = Touched(@, key)]
               /\ known' = known \cup {key} /\ touched' = touched \cup {key}
               /\ UNCHANGED reply
  /\ UNCHANGED <<packed, file, input, saved, torn>>

(* The file is emptied when it is opened.  That not all of it was written  *)
(* may be seen by fwrite, or only by fclose, which is not asked.           *)
PipelineCacheSave ==
  /\ reply = NoReply /\ cache.open
  /\ \/ /\ reply' = [op |-> "save", result |-> "io"]
        /\ UNCHANGED <<file, saved>>
     \/ \E bytes \in Prefixes(cache.keys) :
          LET whole == bytes = cache.keys
          IN  /\ file' = [there |-> TRUE, bytes |-> bytes, whole |-> whole /\ ~torn]
              /\ saved' = IF whole THEN known ELSE {}
              /\ reply' \in {[op |-> "save", result |-> r] : r \in {"success"} \cup (IF whole THEN {} ELSE {"io"})}
  /\ UNCHANGED <<packed, cache, input, known, touched, torn>>

\* The keys are dropped before it is known whether others can be read.
PipelineCacheLoad ==
  /\ reply = NoReply /\ cache.open
  /\ \/ /\ reply' = [op |-> "load", result |-> "io"]          \* fopen, fseek or ftell fails
        /\ UNCHANGED <<cache, known, torn>>
     \/ /\ file.there
        /\ cache' = [cache EXCEPT !.keys = file.bytes]
        /\ known' = saved /\ torn' = ~file.whole
        /\ reply' = [op |-> "load", result |-> "success"]
     \/ /\ file.there /\ file.bytes # <<>>                   \* malloc or fread fails
        /\ cache' = [cache EXCEPT !.keys = <<>>]
        /\ known' = {} /\ torn' = FALSE
        /\ reply' \in {[op |-> "load", result |-> r] : r \in {"out of memory", "io"}}
  /\ UNCHANGED <<packed, file, input, saved, touched>>

AssetsNext ==
  \/ CompressVertices \/ DecompressVertices \/ Replied
  \/ CreatePipelineCache \/ DestroyPipelineCache
  \/ PipelineCacheTouch \/ PipelineCacheSave \/ PipelineCacheLoad

AssetsSpec == AssetsInit /\ [][AssetsNext]_assetsVars

----------------------------------------------------------------------------
(* Vertices are unpacked as they were packed: whatever is unpacked with    *)
(* success is the first bytes of the vertices, all of it with the right    *)
(* sizes, and never from packed bytes some of which are missing.           *)
UnpackedAsPacked ==
  reply.op = "unpack" =>
    /\ reply.result = "success" => reply.out = SubSeq(input, 1, reply.original)
    /\ reply.src = packed.bytes /\ reply.room >= Len(input) /\ reply.original = Len(input) =>
         reply.result = "success"
    /\ reply.src # packed.bytes /\ reply.original = Len(input) => reply.result # "success"

Has(bytes, key) == \E i, j \in DOMAIN bytes : i <= j /\ SubSeq(bytes, i, j) = key

KnownIsThere ==
  /\ \A key \in known : Has(cache.keys, key)
  /\ \A key \in saved : Has(file.bytes, key)

LineEnds(bytes) == {0} \cup Newlines(bytes)
Lines(bytes) ==
  {l \in LineEnds(bytes) \X Newlines(bytes) :
     l[1] < l[2] /\ \A k \in (l[1] + 1)..(l[2] - 1) : bytes[k] # NEWLINE}
LinesOnce(bytes, keys) ==
  /\ bytes # <<>> => Last(bytes) = NEWLINE
  /\ \A l \in Lines(bytes) :
       LET key == SubSeq(bytes, l[1] + 1, l[2] - 1)
       IN  key \in keys /\ ~Has(SubSeq(bytes, 1, l[1]), key)

(* What was touched is there: in the cache until it is loaded or gone, in  *)
(* the file from a save that wrote all of it, and in the cache again after *)
(* that file is loaded.  So a pipeline of an earlier run is found again.   *)
(* And there is nothing else: the lines of a cache, other than one of a    *)
(* file cut short, are keys that were touched, and none has what the lines *)
(* before it already contain, so a cache does not grow by what it has,     *)
(* across saves and loads either.                                          *)
KeysAsTouched == KnownIsThere /\ (cache.open /\ ~torn => LinesOnce(cache.keys, touched))
=============================================================================
