------------------------------- MODULE Readdir -------------------------------
(***************************************************************************)
(* A directory stream (app_mount.cpp: fs123_opendir, fs123_readdir,         *)
(* fs123_releasedir) and the server's handler d (exportd_handler.cpp).      *)
(*                                                                          *)
(* The kernel asks for entries at a byte offset of one long text, of which  *)
(* the client holds one chunk at a time.  The server knows nothing of such  *)
(* offsets: it is asked for the entries after a position of its own, the    *)
(* d_off of the last entry of the chunk before.  The directory may change   *)
(* between any two requests, and caches answer with older listings.         *)
(***************************************************************************)
EXTENDS Integers, Sequences, FiniteSets, FiniteSetsExt

CONSTANTS
  Entries,     \* entries, by their position (d_off) in the server's directory
  Dots,        \* those that are always there: "." and ".."
  Bytes,       \* the bytes of the text of a set of entries
  ChunkSize,   \* Fs123Chunk: the bytes of a reply
  Specials,    \* the special inodes of the root: max_special_ino - 1; elsewhere 0
  Room,        \* the entries that fit in the kernel's buffer
  MaxChanges   \* bound: modifications of the directory

Directories == /\ Entries \subseteq Nat \ {0} /\ \E max \in Entries : \A e \in Entries : e <= max
               /\ Dots \subseteq Entries /\ Dots # {}
\* add_dirent: the text of a set of entries, sent in the order of their positions, is made
\* of a line for each; and a line fits in a chunk.  An entry's line is taken to be of one
\* length.  It holds the estale_cookie, in whose place there is a 0 when the server could not
\* get it: that such a line is shorter is left out.
Text == /\ Bytes \in [SUBSET Entries -> Nat] /\ ChunkSize \in Nat
        /\ \A a, b \in SUBSET Entries : a \cap b = {} => Bytes[a \cup b] = Bytes[a] + Bytes[b]
        /\ \A e \in Entries : Bytes[{e}] > 0 /\ Bytes[{e}] <= ChunkSize
Limits == Specials \in Nat /\ Room \in Nat \ {0} /\ MaxChanges \in Nat

ASSUME EntriesAssumption == Directories
ASSUME TextAssumption == Text
ASSUME LimitsAssumption == Limits

VARIABLES
  dir,      \* the entries of the directory on the server
  answers,  \* the listings, dir among them, that a reply may be taken from
  changes,  \* how often the directory was modified
  fh,       \* the fh_state of the stream
  pos,      \* the offset at which the kernel will read next
  status,   \* of the stream: "closed", "open", "ended" or "failed"
  got,      \* what the reader was given since it opened or rewound the stream
  seen,     \* <<offset, entry read there, offset behind it>>; entry 0 is the end
  stable,   \* the entries that no listing since opendir was without
  changed,  \* whether these listings differed
  sought    \* how the reader has moved: "no", "rewound", "elsewhere"

readdirVars == <<dir, answers, changes, fh, pos, status, got, seen, stable, changed, sought>>

\* The empty string, which as the start of a request means the beginning of the directory,
\* and as the next start of a reply its end.
Empty == 0

Handles == [contents : SUBSET Entries, first : Nat,
            offsets : Seq([off : Nat, start : Entries \cup {Empty}]), eof : BOOLEAN]
NewHandle == [contents |-> {}, first |-> 0,
              offsets |-> <<[off |-> 0, start |-> Empty]>>, eof |-> FALSE]

ReaddirInit == /\ dir \in {d \in SUBSET Entries : Dots \subseteq d}
               /\ answers = {dir} /\ changes = 0
               /\ fh = NewHandle /\ pos = 0 /\ status = "closed"
               /\ got = {} /\ seen = {} /\ stable = {} /\ changed = FALSE /\ sought = "no"

-----------------------------------------------------------------------------
(* The server and the caches.                                               *)

Modify(d) ==
  /\ changes < MaxChanges /\ d # dir /\ Dots \subseteq d
  /\ dir' = d /\ changes' = changes + 1
  /\ answers' = answers \cup {d}
  /\ stable' = stable \cap d /\ changed' = TRUE
  /\ UNCHANGED <<fh, pos, status, got, seen, sought>>

\* A listing has expired in all caches.
Settle(d) ==
  /\ d \in answers \ {dir}
  /\ answers' = answers \ {d}
  /\ UNCHANGED <<dir, changes, fh, pos, status, got, seen, stable, changed, sought>>

\* What one pass of the server's readdir may find: it takes several system calls,
\* and changes come between them.
Always == {e \in Entries : \A d \in answers : e \in d}
Listings == {d \in SUBSET UNION answers : Always \subseteq d}

\* Handler d: the entries after start that fit, and where the next request starts.
Chunk(listing, start) ==
  LET rest == {e \in listing : e > start}
      content == {e \in rest : Bytes[{x \in rest : x <= e}] <= ChunkSize}
  IN  [content |-> content, next |-> IF content = rest THEN Empty ELSE Max(content)]

-----------------------------------------------------------------------------
(* fs123_readdir.                                                           *)

\* The entries of the special inodes from an offset on, and the offset behind all of them.
SpecialsAt(off) == {<<i - 1, -i, i>> : i \in off + 1 .. Specials}
Behind(off) == Max({off, Specials})

\* The handle after offsets[0].first was set, which in the root every call does.
Rooted == IF Specials = 0 THEN fh ELSE [fh EXCEPT !.offsets[1].off = Specials]

Loaded(h, off) == h.first <= off /\ off < h.first + Bytes[h.contents]

\* Mutant: lower_bound, which at a chunk's first byte finds the chunk before it.
LowerBound(h, off) == Max({1} \cup {i \in DOMAIN h.offsets : h.offsets[i].off < off})

\* std::upper_bound: the last of the known chunks that starts at off or before.
ChunkAt(h, off) == Max({i \in DOMAIN h.offsets : h.offsets[i].off <= off})

Latest(h) == h.offsets[Len(h.offsets)]

\* Mutant: the offset behind a chunk is noted also when the chunk is loaded again.
KeepAll(h, i, c, eof) ==
  [contents |-> c.content, first |-> h.offsets[i].off, eof |-> eof,
   offsets |-> Append(h.offsets, [off |-> h.offsets[i].off + Bytes[c.content], start |-> c.next])]

\* The handle after chunk i was loaded, reply c.
Keep(h, i, c, eof) ==
  LET next == [off |-> h.offsets[i].off + Bytes[c.content], start |-> c.next]
  IN  [contents |-> c.content, first |-> h.offsets[i].off,
       offsets |-> IF i = Len(h.offsets) THEN Append(h.offsets, next) ELSE h.offsets,
       eof |-> eof]

\* Mutant: eof set by every reply, also by that to a request for an earlier chunk.
FetchSetsEof(h, off, listing) ==
  LET c == Chunk(listing, h.offsets[ChunkAt(h, off)].start)
  IN  Keep(h, ChunkAt(h, off), c, c.next = Empty)

Fetch(h, off, listing) ==
  LET i == ChunkAt(h, off)
      c == Chunk(listing, h.offsets[i].start)
  IN  Keep(h, i, c, IF i = Len(h.offsets) THEN c.next = Empty ELSE h.eof)

\* The lines of the loaded chunk, each with the offsets before and behind it.
Lines(h) == {<<h.first + Bytes[{x \in h.contents : x < e}], e,
               h.first + Bytes[{x \in h.contents : x <= e}]>> : e \in h.contents}

\* The reader takes the first lines of a reply; an empty one is the end of the directory.
Give(reply) ==
  \/ /\ reply = {}
     /\ status' = "ended" /\ seen' = seen \cup {<<pos, 0, pos>>}
     /\ UNCHANGED <<pos, got>>
  \/ \E last \in reply :
       LET given == {l \in reply : l[1] <= last[1]}
       IN  /\ Cardinality(given) <= Room
           /\ pos' = last[3]
           /\ got' = got \cup {l[2] : l \in given}
           /\ seen' = seen \cup given
           /\ UNCHANGED status

ReaddirFails == status' = "failed" /\ UNCHANGED <<pos, got, seen>>

\* The parse loop on what is loaded, behind the special entries.  An offset within a line
\* does not scan: EINVAL.
Parse(h, off, specials) ==
  /\ fh' = h
  /\ IF off < h.first + Bytes[h.contents] /\ ~\E l \in Lines(h) : l[1] = off
     THEN ReaddirFails
     ELSE Give(specials \cup {l \in Lines(h) : l[1] >= off})

\* The special entries alone fill the buffer.
ReaddirSpecials ==
  /\ Specials - pos > Room
  /\ Give(SpecialsAt(pos)) /\ UNCHANGED fh

AtEnd(h, off) == off = Latest(h).off /\ h.eof

ReaddirEnd(h, off) ==
  /\ fh' = h
  /\ \/ off > Latest(h).off /\ ReaddirFails
     \/ AtEnd(h, off) /\ Give({})

ReaddirLoaded(h, off) ==
  /\ off <= Latest(h).off /\ ~AtEnd(h, off) /\ Loaded(h, off)
  /\ Parse(h, off, SpecialsAt(pos))

\* begetchunk_dir may throw, or reply with an errno.
ReaddirChunk(h, off) ==
  /\ off <= Latest(h).off /\ ~AtEnd(h, off) /\ ~Loaded(h, off)
  /\ \/ \E d \in Listings : \E new \in {Fetch(h, off, d)} : Parse(new, off, SpecialsAt(pos))
     \/ fh' = h /\ ReaddirFails

Readdir ==
  /\ status = "open"
  /\ \/ ReaddirSpecials
     \/ /\ Specials - pos <= Room
        /\ \E h \in {Rooted}, off \in {Behind(pos)} :
             ReaddirEnd(h, off) \/ ReaddirLoaded(h, off) \/ ReaddirChunk(h, off)
  /\ UNCHANGED <<dir, answers, changes, stable, changed, sought>>

-----------------------------------------------------------------------------
(* The reader.                                                              *)

Opendir == /\ status = "closed" /\ status' = "open"
           /\ fh' = NewHandle /\ pos' = 0
           /\ got' = {} /\ seen' = {} /\ sought' = "no"
           /\ stable' = Always /\ changed' = (answers # {dir})
           /\ UNCHANGED <<dir, answers, changes>>

\* lseek, which the kernel does not tell us of: rewinddir, or seekdir to what telldir said.
Told == {l[3] : l \in {l \in seen : l[2] # 0}}
Seek(off) == /\ status \in {"open", "ended"} /\ off \in Told \cup {0} /\ off # pos
             /\ pos' = off /\ status' = "open"
             /\ sought' = IF off = 0 THEN "rewound" ELSE "elsewhere"
             /\ got' = {}
             /\ UNCHANGED <<dir, answers, changes, fh, seen, stable, changed>>

Releasedir == /\ status # "closed" /\ status' = "closed"
              /\ fh' = NewHandle /\ pos' = 0
              /\ got' = {} /\ seen' = {} /\ stable' = {} /\ changed' = FALSE /\ sought' = "no"
              /\ UNCHANGED <<dir, answers, changes>>

ReaddirNext == \/ \E d \in SUBSET Entries : Modify(d)
               \/ \E d \in answers : Settle(d)
               \/ Opendir \/ Readdir \/ Releasedir
               \/ \E off \in Told \cup {0} : Seek(off)

ReaddirSpec == ReaddirInit /\ [][ReaddirNext]_readdirVars

-----------------------------------------------------------------------------
(* Properties.                                                              *)

\* Types; and the chunks that the handle knows of follow one another.
ReaddirTypeOK ==
  /\ dir \in answers /\ answers \subseteq SUBSET Entries /\ changes \in 0 .. MaxChanges
  /\ fh \in Handles
  /\ \A i \in 2 .. Len(fh.offsets) : fh.offsets[i - 1].off <= fh.offsets[i].off
  /\ pos \in Nat /\ status \in {"closed", "open", "ended", "failed"}
  /\ stable \subseteq Entries /\ changed \in BOOLEAN
  /\ sought \in {"no", "rewound", "elsewhere"}

\* The entries that are in the directory all the time are listed exactly once, and no
\* other twice, although every chunk may come from another version of the directory:
\* for a reader that only reads on, from fs123_opendir to the end.
StableOnce ==
  sought = "no" =>
    /\ \A x, y \in seen : x[2] = y[2] => x = y
    /\ status = "ended" => stable \subseteq got

\* telldir and seekdir: in a directory that does not change, an offset means the same place
\* for as long as the stream is open, whichever chunks were loaded in between, and in which
\* order; and only the last one is at the end.  Not changing includes the lengths of the lines
\* (Text): a chunk that is loaded again without a cookie that it had is another text.
OffsetsMeanOnePlace ==
  ~changed => \A x, y \in seen : x[1] = y[1] \/ x[2] = y[2] => x = y

=============================================================================
