------------------------------ MODULE Playlist ------------------------------
(***************************************************************************)
(* The playlist parser (parse/m3u8.go): one step per line of the document,  *)
(* one action per kind of line in the order of the switch, and the pass     *)
(* over the byte ranges at the end.                                        *)
(*                                                                         *)
(* A line is what its tag and its parameters make of it; a malformed one is *)
(* a line of its own.  Titles, durations and the like are left out.         *)
(***************************************************************************)
EXTENDS Integers, Sequences, FiniteSets

CONSTANTS URI,        \* the URIs of segments and of variants
          Method,     \* values of METHOD, a missing one among them
          Ranges,     \* the byte ranges: [length, offset, explicit]
          Modulus,    \* 2^64: offsets are uint64
          MaxLines, MaxOther   \* bounds: lines, and lines without meaning

Offset  == 0 .. Modulus - 1
Wrap(n) == n % Modulus

ASSUME PlaylistAssumption ==
  /\ Modulus \in Nat \ {0} /\ MaxLines \in Nat /\ MaxOther \in Nat
  /\ Ranges \subseteq [length : Offset, offset : Offset, explicit : BOOLEAN]
  /\ \A r \in Ranges : r.explicit \/ r.offset = 0

VARIABLES
  doc,        \* history: the lines read
  status,     \* "reading", "resolving", "parsed", "error" or "panic"
  segments,   \* m3u8.Segments
  variants,   \* m3u8.MasterPlaylist
  keys,       \* m3u8.Keys, whose domain is 1 .. keyIndex
  seg,        \* the segment under construction
  extInf, extByte,   \* which of its tags were seen
  variant,    \* #EXT-X-STREAM-INF was read: the next line is the variant's
  next,       \* the segment that resolveByteRangeOffsets comes to next
  lastEnd     \* its map lastEndByURI

segVars     == <<seg, extInf, extByte>>
resolveVars == <<next, lastEnd>>
parserVars  == <<segments, variants, keys, segVars, variant, resolveVars>>
vars        == <<doc, status, parserVars>>

\* The lines.  "other" is blank, a comment, an unknown tag, or one of the tags
\* whose value nothing here depends on.
Line ==
       [tag : {"header", "other", "streamInf", "extInf", "malformed"}]
  \cup [tag : {"uri"}, uri : URI]
  \cup [tag : {"key"}, method : Method]
  \cup [tag : {"byteRange"}, range : Ranges]

Plain(tag) == [tag |-> tag]

NoEnd == -1

NewSegment == [key |-> 0, length |-> 0, offset |-> 0, explicit |-> FALSE]

Init ==
  /\ doc = <<>> /\ status = "reading"
  /\ segments = <<>> /\ variants = <<>> /\ keys = <<>>
  /\ seg = NewSegment /\ extInf = FALSE /\ extByte = FALSE
  /\ variant = FALSE
  /\ next = 1 /\ lastEnd = [u \in URI |-> NoEnd]

-----------------------------------------------------------------------------

Read(line) ==
  /\ status = "reading" /\ Len(doc) < MaxLines
  /\ doc' = Append(doc, line)

\* parse returns the error: what it has built is dropped.
Fail == status' = "error" /\ UNCHANGED parserVars

\* A line that is not the first, and not the one after #EXT-X-STREAM-INF.
InBody == doc # <<>> /\ ~variant

Header(line) ==
  /\ doc = <<>>
  /\ Read(line)
  /\ IF line = Plain("header")
     THEN UNCHANGED <<status, parserVars>>
     ELSE Fail

Ignore ==
  /\ InBody
  /\ Cardinality({i \in DOMAIN doc : doc[i] = Plain("other")}) < MaxOther
  /\ Read(Plain("other"))
  /\ UNCHANGED <<status, parserVars>>

\* A value that does not parse, a BYTERANGE or a KEY without any, a playlist
\* type that is neither VOD nor EVENT.
Malformed == InBody /\ Read(Plain("malformed")) /\ Fail

StreamInf ==
  /\ InBody
  /\ Read(Plain("streamInf"))
  /\ variant' = TRUE
  /\ UNCHANGED <<status, segments, variants, keys, segVars, resolveVars>>

VariantLine_Skips(line) ==
  /\ variant
  /\ Read(line)
  /\ variants' = IF line.tag = "uri" THEN Append(variants, line.uri) ELSE variants
  /\ variant' = FALSE
  /\ UNCHANGED <<status, segments, keys, segVars, resolveVars>>

\* i++ and lines[i]: whatever that line is, the switch does not see it.
VariantLine(line) ==
  /\ variant
  /\ Read(line)
  /\ IF line.tag = "uri"
     THEN /\ variants' = Append(variants, line.uri)
          /\ variant' = FALSE
          /\ UNCHANGED <<status, segments, keys, segVars, resolveVars>>
     ELSE Fail

ExtInf_KeyOfPrevious ==
  /\ InBody
  /\ Read(Plain("extInf"))
  /\ IF extInf
     THEN Fail
     ELSE /\ seg' = [seg EXCEPT !.key = IF segments = <<>> THEN Len(keys)
                                        ELSE segments[Len(segments)].key]
          /\ extInf' = TRUE
          /\ UNCHANGED <<status, segments, variants, keys, extByte, variant,
                         resolveVars>>

ExtInf_OffByOne ==
  /\ InBody
  /\ Read(Plain("extInf"))
  /\ IF extInf
     THEN Fail
     ELSE /\ seg' = [seg EXCEPT !.key = Len(keys) + 1]
          /\ extInf' = TRUE
          /\ UNCHANGED <<status, segments, variants, keys, extByte, variant,
                         resolveVars>>

\* The key of a segment is the one in force at its #EXTINF.
ExtInf ==
  /\ InBody
  /\ Read(Plain("extInf"))
  /\ IF extInf
     THEN Fail
     ELSE /\ seg' = [seg EXCEPT !.key = Len(keys)]
          /\ extInf' = TRUE
          /\ UNCHANGED <<status, segments, variants, keys, extByte, variant,
                         resolveVars>>

ByteRange(r) ==
  /\ InBody
  /\ Read([tag |-> "byteRange", range |-> r])
  /\ IF extByte
     THEN Fail
     ELSE /\ seg' = [seg EXCEPT !.length = r.length, !.offset = r.offset,
                                !.explicit = r.explicit]
          /\ extByte' = TRUE
          /\ UNCHANGED <<status, segments, variants, keys, extInf, variant,
                         resolveVars>>

Located(s, u) == [uri |-> u, key |-> s.key, length |-> s.length,
                  offset |-> s.offset, explicit |-> s.explicit]

SegmentURI_AnyURI(u) ==
  /\ InBody
  /\ Read([tag |-> "uri", uri |-> u])
  /\ segments' = Append(segments, Located(seg, u))
  /\ seg' = NewSegment /\ extInf' = FALSE /\ extByte' = FALSE
  /\ UNCHANGED <<status, variants, keys, variant, resolveVars>>

\* A URI closes the segment that its tags have opened, and is ignored if there
\* are none.
SegmentURI(u) ==
  /\ InBody
  /\ Read([tag |-> "uri", uri |-> u])
  /\ IF extInf \/ extByte
     THEN /\ segments' = Append(segments, Located(seg, u))
          /\ seg' = NewSegment /\ extInf' = FALSE /\ extByte' = FALSE
     ELSE UNCHANGED <<segments, segVars>>
  /\ UNCHANGED <<status, variants, keys, variant, resolveVars>>

KeyTag(m) ==
  /\ InBody
  /\ Read([tag |-> "key", method |-> m])
  /\ keys' = Append(keys, m)
  /\ UNCHANGED <<status, segments, variants, segVars, variant, resolveVars>>

-----------------------------------------------------------------------------
(* The pass over the byte ranges: one step per segment.                     *)

\* The document ends, or the read does: the error of the scanner is not looked
\* at.  After #EXT-X-STREAM-INF lines[i] is beyond the last line.
Finish ==
  /\ status = "reading"
  /\ status' = IF variant THEN "panic" ELSE "resolving"
  /\ UNCHANGED <<doc, parserVars>>

StartOf(s) == IF s.explicit THEN s.offset
              ELSE IF lastEnd[s.uri] # NoEnd THEN lastEnd[s.uri] ELSE 0

Resolving == status = "resolving" /\ next \in DOMAIN segments

resolve_ForgetsExplicit ==
  /\ Resolving
  /\ LET s == segments[next] IN
     /\ segments' = IF s.length = 0 THEN segments
                    ELSE [segments EXCEPT ![next].offset = StartOf(s)]
     /\ lastEnd' = IF s.length = 0 \/ s.explicit THEN lastEnd
                   ELSE [lastEnd EXCEPT ![s.uri] = Wrap(StartOf(s) + s.length)]
  /\ next' = next + 1
  /\ UNCHANGED <<doc, status, variants, keys, segVars, variant>>

\* A segment without #EXT-X-BYTERANGE, or with the length 0, is no range.
resolve ==
  /\ Resolving
  /\ LET s == segments[next] IN
     IF s.length = 0
     THEN UNCHANGED <<segments, lastEnd>>
     ELSE /\ segments' = [segments EXCEPT ![next].offset = StartOf(s)]
          /\ lastEnd' = [lastEnd EXCEPT ![s.uri] = Wrap(StartOf(s) + s.length)]
  /\ next' = next + 1
  /\ UNCHANGED <<doc, status, variants, keys, segVars, variant>>

Return ==
  /\ status = "resolving" /\ next \notin DOMAIN segments
  /\ status' = "parsed"
  /\ UNCHANGED <<doc, parserVars>>

resolveByteRangeOffsets == resolve \/ Return

Next ==
  \/ \E tag \in {"header", "other"} : Header(Plain(tag))
  \/ Ignore \/ Malformed \/ StreamInf \/ ExtInf
  \/ \E tag \in {"other", "extInf"} : VariantLine(Plain(tag))
  \/ \E u \in URI : SegmentURI(u) \/ VariantLine([tag |-> "uri", uri |-> u])
  \/ \E r \in Ranges : ByteRange(r)
  \/ \E m \in Method : KeyTag(m)
  \/ Finish \/ resolveByteRangeOffsets

Spec == Init /\ [][Next]_vars

-----------------------------------------------------------------------------
(* What a document means, read as a whole: the reference.                   *)

Tagged(tag) == {i \in DOMAIN doc : doc[i].tag = tag}

\* The line after a #EXT-X-STREAM-INF belongs to it.
Variants  == {i \in DOMAIN doc : i > 1 /\ doc[i - 1].tag = "streamInf"}
PlainURIs == Tagged("uri") \ Variants

Since(i) == {j \in 1 .. i - 1 : \A k \in PlainURIs : k < i => k < j}

\* The tags that belong to the URI in line i: those after the URI before it.
TagsOf(i, tag) == Tagged(tag) \cap Since(i)

SegmentLines == {i \in PlainURIs : TagsOf(i, "extInf") \cup TagsOf(i, "byteRange") # {}}

\* Which of the segments the one in line i is, and which of the variants.
Position(i)        == Cardinality({j \in SegmentLines : j <= i})
VariantPosition(i) == Cardinality({j \in Variants : j <= i})

\* How many keys the document has before line i.
KeysBefore(i) == Cardinality({k \in Tagged("key") : k < i})

-----------------------------------------------------------------------------
(* Properties.                                                             *)

Segment == [uri : URI, key : Nat, length : Offset, offset : Offset, explicit : BOOLEAN]

\* The types; a segment refers to a key that was read before it, and a segment
\* is under construction exactly while a tag of it was seen.
TypeOK ==
  /\ doc \in Seq(Line) /\ Len(doc) <= MaxLines
  /\ status \in {"reading", "resolving", "parsed", "error", "panic"}
  /\ segments \in Seq(Segment) /\ variants \in Seq(URI) /\ keys \in Seq(Method)
  /\ \A n \in DOMAIN segments : segments[n].key <= Len(keys)
  /\ seg \in [key : 0 .. Len(keys), length : Offset, offset : Offset, explicit : BOOLEAN]
  /\ extInf \in BOOLEAN /\ extByte \in BOOLEAN /\ variant \in BOOLEAN
  /\ ~extInf /\ ~extByte => seg = NewSegment
  /\ next \in 1 .. Len(segments) + 1 /\ lastEnd \in [URI -> Offset \union {NoEnd}]

\* The segments are the URIs that have a tag of their own, in the order of the
\* document and whatever stands between, and no variant is among them.
SegmentsAsListed ==
  status # "error" =>
    /\ Len(segments) = Cardinality(SegmentLines)
    /\ \A i \in SegmentLines : segments[Position(i)].uri = doc[i].uri

\* A segment is decrypted with the key that is in force where it stands: the
\* last #EXT-X-KEY before it, provided that none came between its #EXTINF and
\* its URI.  (A segment without #EXTINF has no key, whatever is in force.)
KeyInForce ==
  status # "error" =>
    \A i \in SegmentLines :
      LET inf == TagsOf(i, "extInf")
      IN \/ inf = {}
         \/ \E j \in inf, k \in Tagged("key") : j < k /\ k < i
         \/ segments[Position(i)].key = KeysBefore(i)

\* The ranges of the resource of segment n before it, and where a range ends.
Earlier(n) == {m \in 1 .. n - 1 : segments[m].length > 0 /\ segments[m].uri = segments[n].uri}
End(m)     == Wrap(segments[m].offset + segments[m].length)

\* A range without an offset begins where the range before it of the same
\* resource ends, however many segments of other resources, or without a range,
\* stand between, and at 0 if there is none (the comment of
\* resolveByteRangeOffsets, m3u8.go:225).
ImplicitRangesAdjoin ==
  status = "parsed" =>
    \A n \in DOMAIN segments :
      segments[n].length > 0 /\ ~segments[n].explicit =>
        \/ Earlier(n) = {} /\ segments[n].offset = 0
        \/ \E m \in Earlier(n) : /\ \A k \in Earlier(n) : k <= m
                                /\ segments[n].offset = End(m)

\* parse ends abnormally only at a #EXT-X-STREAM-INF in the last line, and every
\* other one has its variant: FromURL follows the first of them.
VariantsAsListed ==
  /\ status = "panic" <=> /\ status # "reading"
                          /\ doc # <<>> /\ doc[Len(doc)].tag = "streamInf"
  /\ status # "error" =>
       /\ \A i \in Variants : doc[i].tag = "uri"
       /\ Len(variants) = Cardinality(Variants)
       /\ \A i \in Variants : variants[VariantPosition(i)] = doc[i].uri
=============================================================================
