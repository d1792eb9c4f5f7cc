---------------------------- MODULE Playlist_proofs ----------------------------
(***************************************************************************)
(* Proofs about Playlist, for documents of any length, any resources,       *)
(* methods and byte ranges, and offsets of any width.                       *)
(***************************************************************************)
EXTENDS Playlist, FiniteSetTheorems, SequenceTheorems, TLAPS

-----------------------------------------------------------------------------
(* Lines and steps.                                                        *)

\* Every line that a step reads is a line, with the tag it says.
LEMMA Lines ==
  /\ \A tag \in {"header", "other", "streamInf", "extInf", "malformed"} :
       Plain(tag) \in Line /\ Plain(tag).tag = tag
  /\ \A u \in URI : [tag |-> "uri", uri |-> u] \in Line
  /\ \A m \in Method : [tag |-> "key", method |-> m] \in Line
  /\ \A r \in Ranges : [tag |-> "byteRange", range |-> r] \in Line
BY DEF Line, Plain

\* The offsets wrap within their width, and a range has its parts there.
LEMMA Offsets ==
  /\ 0 \in Offset /\ NoEnd \notin Offset
  /\ \A n \in Nat : Wrap(n) \in Offset
  /\ Offset \subseteq Nat
  /\ \A r \in Ranges : r.length \in Offset /\ r.offset \in Offset /\ r.explicit \in BOOLEAN
<1>1. Modulus \in Nat \ {0}
  BY PlaylistAssumption
<1>2. \A n \in Nat : n % Modulus \in 0 .. Modulus - 1
  BY <1>1
<1>3. QED
  BY <1>1, <1>2, PlaylistAssumption DEF Offset, Wrap, NoEnd

\* The disjuncts of Next: the lines that a step reads and the two ends.
LEMMA NextCases ==
  ASSUME [Next]_vars
  PROVE  \/ \E tag \in {"header", "other"} : Header(Plain(tag))
         \/ Ignore \/ Malformed \/ StreamInf \/ ExtInf
         \/ \E tag \in {"other", "extInf"} : VariantLine(Plain(tag))
         \/ \E u \in URI : SegmentURI(u)
         \/ \E u \in URI : VariantLine([tag |-> "uri", uri |-> u])
         \/ \E r \in Ranges : ByteRange(r)
         \/ \E m \in Method : KeyTag(m)
         \/ Finish \/ resolve \/ Return
         \/ UNCHANGED vars
BY DEF Next, resolveByteRangeOffsets

\* A step that changes nothing leaves each variable alone.
LEMMA Stutters ==
  ASSUME UNCHANGED vars
  PROVE  UNCHANGED <<doc, status, segments, variants, keys, seg, extInf, extByte, variant,
                     next, lastEnd>>
BY DEF vars, parserVars, segVars, resolveVars

\* What a line adds to the document.
LEMMA Reads ==
  ASSUME TypeOK, NEW line \in Line, Read(line)
  PROVE  /\ status = "reading" /\ doc' \in Seq(Line) /\ Len(doc') <= MaxLines
         /\ Len(doc) \in Nat /\ Len(doc') = Len(doc) + 1
         /\ DOMAIN doc = 1 .. Len(doc) /\ DOMAIN doc' = 1 .. Len(doc) + 1
         /\ doc'[Len(doc) + 1] = line
         /\ \A i \in 1 .. Len(doc) : doc'[i] = doc[i]
<1>1. doc \in Seq(Line) /\ MaxLines \in Nat /\ Len(doc) < MaxLines /\ doc' = Append(doc, line)
  BY PlaylistAssumption DEF TypeOK, Read
<1>2. QED
  BY <1>1 DEF Read

-----------------------------------------------------------------------------
(* Types.                                                                  *)

\* What an action that reads a line may do to the segment under construction and
\* to the lists, without leaving the types.
LEMMA TypesKept ==
  ASSUME TypeOK, NEW line \in Line, Read(line),
         status' \in {"reading", "error"},
         UNCHANGED <<segments, variants, keys, segVars, resolveVars>>, variant' \in BOOLEAN
  PROVE  TypeOK'
BY Reads DEF TypeOK, segVars, resolveVars

\* A segment that is closed is a segment.
LEMMA LocatedTypes ==
  ASSUME TypeOK, NEW u \in URI
  PROVE  /\ Located(seg, u) \in Segment
         /\ Located(seg, u).key <= Len(keys) /\ Located(seg, u).uri = u
         /\ Located(seg, u).key = seg.key
BY DEF TypeOK, Located, Segment

\* The pass changes the offset of one segment at most, and nothing else of any.
LEMMA Resolves ==
  ASSUME TypeOK, resolve
  PROVE  /\ segments' \in Seq(Segment) /\ Len(segments') = Len(segments)
         /\ DOMAIN segments' = DOMAIN segments
         /\ \A n \in DOMAIN segments : n # next => segments'[n] = segments[n]
         /\ \A n \in DOMAIN segments : /\ segments'[n].uri = segments[n].uri
                                      /\ segments'[n].key = segments[n].key
                                      /\ segments'[n].length = segments[n].length
                                      /\ segments'[n].explicit = segments[n].explicit
         /\ segments[next].length # 0 => segments'[next].offset = StartOf(segments[next])
<1>1. segments \in Seq(Segment) /\ next \in 1 .. Len(segments) /\ next \in DOMAIN segments
  BY DEF resolve, Resolving, TypeOK
<1>2. segments[next] \in Segment
  BY <1>1, ElementOfSeq
<1>3. CASE segments[next].length = 0
  BY <1>1, <1>3 DEF resolve
<1>4. CASE segments[next].length # 0
  <2>1. segments' = [segments EXCEPT ![next].offset = StartOf(segments[next])]
    BY <1>4 DEF resolve
  <2>2. StartOf(segments[next]) \in Offset
    BY <1>2, Offsets DEF StartOf, TypeOK, Segment
  <2>3. DEFINE new == [segments[next] EXCEPT !.offset = StartOf(segments[next])]
  <2>4. /\ new \in Segment /\ new.uri = segments[next].uri /\ new.key = segments[next].key
        /\ new.length = segments[next].length /\ new.explicit = segments[next].explicit
        /\ new.offset = StartOf(segments[next])
    BY <1>2, <2>2 DEF Segment
  <2>5. segments' = [segments EXCEPT ![next] = new]
    BY <2>1
  <2> HIDE DEF new
  <2>6. QED
    BY <1>1, <2>4, <2>5, ExceptSeq
<1>5. QED
  BY <1>3, <1>4

\* Each step keeps the types.
LEMMA TypesStep ==
  ASSUME TypeOK, [Next]_vars
  PROVE  TypeOK'
<1>1. ASSUME NEW tag \in {"header", "other"}, Header(Plain(tag)) PROVE TypeOK'
  <2>1. Plain(tag) \in Line
    BY Lines
  <2>2. QED
    BY <1>1, <2>1, TypesKept DEF Header, Fail, parserVars, TypeOK, Read
<1>2. CASE Ignore \/ Malformed \/ StreamInf
  <2>1. Plain("other") \in Line /\ Plain("malformed") \in Line /\ Plain("streamInf") \in Line
    BY Lines
  <2>2. QED
    BY <1>2, <2>1, TypesKept DEF Ignore, Malformed, StreamInf, Fail, parserVars, TypeOK, Read
<1>3. CASE ExtInf
  <2>1. Plain("extInf") \in Line /\ Read(Plain("extInf"))
    BY <1>3, Lines DEF ExtInf
  <2>2. CASE extInf
    BY <1>3, <2>1, <2>2, TypesKept DEF ExtInf, Fail, parserVars, TypeOK
  <2>3. CASE ~extInf
    <3>1. /\ seg' = [seg EXCEPT !.key = Len(keys)] /\ extInf' = TRUE
          /\ UNCHANGED <<status, segments, variants, keys, extByte, variant, next, lastEnd>>
      BY <1>3, <2>3 DEF ExtInf, resolveVars
    <3>2. seg' \in [key : 0 .. Len(keys), length : Offset, offset : Offset, explicit : BOOLEAN]
      <4>1. Len(keys) \in Nat
        BY DEF TypeOK
      <4>2. seg \in [key : 0 .. Len(keys), length : Offset, offset : Offset, explicit : BOOLEAN]
        BY DEF TypeOK
      <4>3. seg' = [seg EXCEPT !.key = Len(keys)] /\ keys' = keys
        BY <3>1
      <4>4. Len(keys) \in 0 .. Len(keys)
        BY <4>1
      <4>5. QED
        BY <4>2, <4>3, <4>4
    <3>3. doc' \in Seq(Line) /\ Len(doc') <= MaxLines
      BY <2>1, Reads
    <3>4. QED
      BY <3>1, <3>2, <3>3 DEF TypeOK
  <2>4. QED
    BY <2>2, <2>3
<1>4. ASSUME NEW tag \in {"other", "extInf"}, VariantLine(Plain(tag)) PROVE TypeOK'
  <2>1. Plain(tag) \in Line /\ Plain(tag).tag # "uri"
    BY Lines
  <2>2. QED
    BY <1>4, <2>1, TypesKept DEF VariantLine, Fail, parserVars, TypeOK
<1>5. ASSUME NEW u \in URI, SegmentURI(u) PROVE TypeOK'
  <2>1. [tag |-> "uri", uri |-> u] \in Line /\ Read([tag |-> "uri", uri |-> u])
    BY <1>5, Lines DEF SegmentURI
  <2>2. CASE extInf \/ extByte
    <3>1. /\ segments' = Append(segments, Located(seg, u)) /\ seg' = NewSegment
          /\ extInf' = FALSE /\ extByte' = FALSE
          /\ UNCHANGED <<status, variants, keys, variant, next, lastEnd>>
      BY <1>5, <2>2 DEF SegmentURI, resolveVars
    <3>2. NewSegment \in [key : 0 .. Len(keys), length : Offset, offset : Offset, explicit : BOOLEAN]
      BY Offsets DEF NewSegment, TypeOK
    <3>3. /\ segments' \in Seq(Segment) /\ Len(segments') = Len(segments) + 1
          /\ \A n \in DOMAIN segments' : segments'[n].key <= Len(keys)
      <4>1. segments \in Seq(Segment) /\ Located(seg, u) \in Segment
            /\ Located(seg, u).key <= Len(keys)
        BY LocatedTypes DEF TypeOK
      <4>2. \A n \in 1 .. Len(segments) : segments[n].key <= Len(keys)
        BY DEF TypeOK
      <4>3. QED
        BY <3>1, <4>1, <4>2
    <3>4. next' \in 1 .. Len(segments') + 1
      BY <3>1, <3>3 DEF TypeOK
    <3>5. QED
      BY <2>1, <3>1, <3>2, <3>3, <3>4, Reads DEF TypeOK
  <2>3. CASE ~(extInf \/ extByte)
    BY <1>5, <2>1, <2>3, TypesKept DEF SegmentURI, TypeOK, Read
  <2>4. QED
    BY <2>2, <2>3
<1>6. ASSUME NEW u \in URI, VariantLine([tag |-> "uri", uri |-> u]) PROVE TypeOK'
  <2>1. [tag |-> "uri", uri |-> u] \in Line /\ Read([tag |-> "uri", uri |-> u])
    BY <1>6, Lines DEF VariantLine
  <2>2. /\ variants' = Append(variants, u) /\ variant' = FALSE
        /\ UNCHANGED <<status, segments, keys, seg, extInf, extByte, next, lastEnd>>
    BY <1>6 DEF VariantLine, segVars, resolveVars
  <2>3. doc' \in Seq(Line) /\ Len(doc') <= MaxLines
    BY <2>1, Reads
  <2>4. variants' \in Seq(URI)
    BY <2>2 DEF TypeOK
  <2>5. QED
    BY <2>2, <2>3, <2>4 DEF TypeOK
<1>7. ASSUME NEW r \in Ranges, ByteRange(r) PROVE TypeOK'
  <2>1. [tag |-> "byteRange", range |-> r] \in Line /\ Read([tag |-> "byteRange", range |-> r])
    BY <1>7, Lines DEF ByteRange
  <2>2. CASE extByte
    BY <1>7, <2>1, <2>2, TypesKept DEF ByteRange, Fail, parserVars, TypeOK
  <2>3. CASE ~extByte
    <3>1. /\ seg' = [seg EXCEPT !.length = r.length, !.offset = r.offset, !.explicit = r.explicit]
          /\ extByte' = TRUE
          /\ UNCHANGED <<status, segments, variants, keys, extInf, variant, next, lastEnd>>
      BY <1>7, <2>3 DEF ByteRange, resolveVars
    <3>2. QED
      BY <2>1, <3>1, Reads, Offsets DEF TypeOK
  <2>4. QED
    BY <2>2, <2>3
<1>8. ASSUME NEW m \in Method, KeyTag(m) PROVE TypeOK'
  <2>1. [tag |-> "key", method |-> m] \in Line /\ Read([tag |-> "key", method |-> m])
    BY <1>8, Lines DEF KeyTag
  <2>2. /\ keys' = Append(keys, m)
        /\ UNCHANGED <<status, segments, variants, seg, extInf, extByte, variant, next, lastEnd>>
    BY <1>8 DEF KeyTag, segVars, resolveVars
  <2>3. keys' \in Seq(Method) /\ Len(keys') = Len(keys) + 1 /\ Len(keys) \in Nat
    BY <2>2 DEF TypeOK
  <2>4. \A n \in DOMAIN segments : segments[n].key <= Len(keys')
    <3>1. \A n \in DOMAIN segments : segments[n] \in Segment /\ segments[n].key <= Len(keys)
      BY DEF TypeOK
    <3>2. QED
      BY <2>3, <3>1 DEF Segment
  <2>5. seg \in [key : 0 .. Len(keys'), length : Offset, offset : Offset, explicit : BOOLEAN]
    BY <2>3 DEF TypeOK
  <2>6. QED
    BY <2>1, <2>2, <2>3, <2>4, <2>5, Reads DEF TypeOK
<1>9. CASE Finish
  BY <1>9 DEF Finish, parserVars, segVars, resolveVars, TypeOK
<1>10. CASE resolve
  <2>1. next \in DOMAIN segments /\ segments \in Seq(Segment) /\ next \in 1 .. Len(segments)
    BY <1>10 DEF resolve, Resolving, TypeOK
  <2>2. segments[next] \in Segment /\ segments[next].uri \in URI
    <3>1. segments[next] \in Segment
      BY <2>1, ElementOfSeq
    <3>2. QED
      BY <3>1 DEF Segment
  <2>3. StartOf(segments[next]) \in Offset
    BY <2>2, Offsets DEF StartOf, TypeOK, Segment
  <2>4. Wrap(StartOf(segments[next]) + segments[next].length) \in Offset
    BY <2>2, <2>3, Offsets DEF Segment
  <2>5. /\ segments' \in Seq(Segment) /\ Len(segments') = Len(segments)
        /\ \A n \in DOMAIN segments' : segments'[n].key = segments[n].key
    BY <1>10, Resolves
  <2>6. lastEnd' \in [URI -> Offset \union {NoEnd}]
    BY <1>10, <2>2, <2>4 DEF resolve, TypeOK
  <2>7. next' \in 1 .. Len(segments') + 1
    BY <1>10, <2>1, <2>5 DEF resolve
  <2>8. QED
    BY <1>10, <2>5, <2>6, <2>7 DEF resolve, segVars, TypeOK
<1>11. CASE Return
  BY <1>11 DEF Return, parserVars, segVars, resolveVars, TypeOK
<1>12. CASE UNCHANGED vars
  BY <1>12, Stutters DEF TypeOK
<1>13. QED
  BY <1>1, <1>2, <1>3, <1>4, <1>5, <1>6, <1>7, <1>8, <1>9, <1>10, <1>11, <1>12, NextCases

\* The types, for documents of any length: in particular no segment refers to a key that
\* comes after it, and the map of the ends has an offset or none for every resource.
THEOREM TypeCorrect == Spec => []TypeOK
<1>1. Init => TypeOK
  <2>1. SUFFICES ASSUME Init PROVE TypeOK
    OBVIOUS
  <2>2. MaxLines \in Nat
    BY PlaylistAssumption
  <2>3. NewSegment \in [key : 0 .. 0, length : Offset, offset : Offset, explicit : BOOLEAN]
    BY Offsets DEF NewSegment
  <2>4. /\ doc = <<>> /\ segments = <<>> /\ keys = <<>> /\ variants = <<>> /\ status = "reading"
        /\ seg = NewSegment /\ ~extInf /\ ~extByte /\ extInf \in BOOLEAN /\ extByte \in BOOLEAN
        /\ variant \in BOOLEAN /\ next = 1 /\ lastEnd \in [URI -> Offset \union {NoEnd}]
    BY <2>1 DEF Init
  <2>5. doc \in Seq(Line) /\ segments \in Seq(Segment) /\ keys \in Seq(Method) /\ variants \in Seq(URI)
    BY <2>4
  <2>6. Len(doc) = 0 /\ Len(segments) = 0 /\ Len(keys) = 0 /\ DOMAIN segments = {}
    BY <2>4
  <2>7. QED
    BY <2>2, <2>3, <2>4, <2>5, <2>6 DEF TypeOK
<1>2. QED
  BY <1>1, TypesStep, PTL DEF Spec

-----------------------------------------------------------------------------
(* The document as it grows: of which line the references change.           *)

\* The number of the line that is read next.
Here == Len(doc) + 1

AfterStreamInf == doc # <<>> /\ doc[Len(doc)].tag = "streamInf"

\* The references speak of lines that were read.
LEMMA Within ==
  ASSUME TypeOK
  PROVE  /\ Len(doc) \in Nat /\ Here \in Nat \ {0} /\ DOMAIN doc = 1 .. Len(doc)
         /\ IsFiniteSet(1 .. Len(doc)) /\ Here \notin 1 .. Len(doc)
         /\ \A i \in 1 .. Len(doc) : i \in Nat \ {0} /\ i < Here /\ i <= Len(doc)
         /\ \A tag : Tagged(tag) \subseteq 1 .. Len(doc)
         /\ Variants \subseteq 1 .. Len(doc) /\ PlainURIs \subseteq 1 .. Len(doc)
         /\ SegmentLines \subseteq PlainURIs
<1>1. Len(doc) \in Nat /\ DOMAIN doc = 1 .. Len(doc)
  BY DEF TypeOK
<1>2. IsFiniteSet(1 .. Len(doc))
  BY <1>1, FS_Interval
<1>3. QED
  BY <1>1, <1>2 DEF Here, Tagged, Variants, PlainURIs, SegmentLines

\* A line adds itself to those with its tag; to the variants if it follows a
\* #EXT-X-STREAM-INF; and to the other URIs if it is one and does not.
LEMMA LinesAdded ==
  ASSUME TypeOK, NEW line \in Line, Read(line)
  PROVE  /\ \A tag :
              Tagged(tag)' = Tagged(tag) \union (IF line.tag = tag THEN {Here} ELSE {})
         /\ Variants' = Variants \union (IF AfterStreamInf THEN {Here} ELSE {})
         /\ PlainURIs' = PlainURIs \union
              (IF line.tag = "uri" /\ ~AfterStreamInf THEN {Here} ELSE {})
<1> DEFINE L == Len(doc)
<1>1. /\ L \in Nat /\ DOMAIN doc = 1 .. L /\ DOMAIN doc' = 1 .. L + 1 /\ doc'[L + 1] = line
      /\ \A i \in 1 .. L : doc'[i] = doc[i]
  BY Reads
<1>2. Here = L + 1
  BY DEF Here
<1>3. AfterStreamInf <=> L > 0 /\ doc[L].tag = "streamInf"
  BY <1>1 DEF AfterStreamInf, TypeOK
<1> HIDE DEF L
<1>4. \A tag : Tagged(tag)' = Tagged(tag) \union (IF line.tag = tag THEN {L + 1} ELSE {})
  <2>1. \A tag : Tagged(tag)' = {i \in 1 .. L + 1 : doc'[i].tag = tag}
    BY <1>1 DEF Tagged
  <2>2. \A tag : Tagged(tag) = {i \in 1 .. L : doc[i].tag = tag}
    BY <1>1 DEF Tagged
  <2>3. 1 .. L + 1 = (1 .. L) \union {L + 1}
    BY <1>1
  <2>4. QED
    BY <1>1, <2>1, <2>2, <2>3
<1>5. Variants' = Variants \union (IF AfterStreamInf THEN {L + 1} ELSE {})
  <2>1. Variants' = {i \in 1 .. L + 1 : i > 1 /\ doc'[i - 1].tag = "streamInf"}
    BY <1>1 DEF Variants
  <2>2. Variants = {i \in 1 .. L : i > 1 /\ doc[i - 1].tag = "streamInf"}
    BY <1>1 DEF Variants
  <2>3. \A i \in 1 .. L + 1 : i > 1 => i - 1 \in 1 .. L /\ doc'[i - 1] = doc[i - 1]
    BY <1>1
  <2>4. \A i \in 1 .. L + 1 : i \in 1 .. L \/ i = L + 1
    BY <1>1
  <2>5. L + 1 \in Variants' <=> AfterStreamInf
    BY <1>1, <1>3, <2>1, <2>3
  <2>6. \A i \in 1 .. L : i \in Variants' <=> i \in Variants
    BY <1>1, <2>1, <2>2, <2>3
  <2>7. Variants \subseteq 1 .. L /\ Variants' \subseteq 1 .. L + 1
    BY <2>1, <2>2
  <2>8. L + 1 \notin 1 .. L /\ 1 .. L \subseteq 1 .. L + 1
    BY <1>1
  <2>9. QED
    BY <2>4, <2>5, <2>6, <2>7, <2>8
<1>6. L + 1 \notin Variants /\ L + 1 \notin Tagged("uri")
  BY <1>1 DEF Variants, Tagged
<1>7. PlainURIs' = PlainURIs \union (IF line.tag = "uri" /\ ~AfterStreamInf THEN {L + 1} ELSE {})
  BY <1>4, <1>5, <1>6 DEF PlainURIs
<1>8. QED
  BY <1>2, <1>4, <1>5, <1>7

\* The tags that belong to a URI do not depend on the lines after it.
LEMMA TagsStay ==
  ASSUME TypeOK, NEW line \in Line, Read(line), NEW i \in 1 .. Here, NEW tag
  PROVE  TagsOf(i, tag)' = TagsOf(i, tag)
<1>1. \A k \in PlainURIs' : k < i => k \in PlainURIs
  BY LinesAdded, Within DEF Here
<1>2. PlainURIs \subseteq PlainURIs'
  BY LinesAdded
<1>3. Since(i)' = Since(i)
  BY <1>1, <1>2 DEF Since
<1>4. \A j \in 1 .. i - 1 : j \in Tagged(tag)' <=> j \in Tagged(tag)
  BY LinesAdded, Within DEF Here
<1>5. Since(i) \subseteq 1 .. i - 1
  BY DEF Since
<1>6. QED
  BY <1>3, <1>4, <1>5 DEF TagsOf

\* The tags that are open for the next URI: none after a URI of a segment, and
\* otherwise one more if the line is such a tag.
LEMMA TagsOpen ==
  ASSUME TypeOK, NEW line \in Line, Read(line), NEW tag
  PROVE  TagsOf(Here, tag)' =
           IF line.tag = "uri" /\ ~AfterStreamInf THEN {}
           ELSE TagsOf(Here, tag) \union (IF line.tag = tag THEN {Here} ELSE {})
<1>1. Here \in Nat /\ Here' = Here + 1 /\ Len(doc) \in Nat /\ Here = Len(doc) + 1
  BY Reads DEF Here
<1>2. Tagged(tag)' = Tagged(tag) \union (IF line.tag = tag THEN {Here} ELSE {})
  BY LinesAdded
<1>3. Tagged(tag) \subseteq 1 .. Len(doc) /\ PlainURIs \subseteq 1 .. Len(doc)
  BY Within
<1>4. TagsOf(Here, tag)' = {j \in Tagged(tag)' : j \in 1 .. Here /\ \A k \in PlainURIs' : k < Here + 1 => k < j}
  BY <1>1 DEF TagsOf, Since
<1>5. TagsOf(Here, tag) = {j \in Tagged(tag) : j \in 1 .. Len(doc) /\ \A k \in PlainURIs : k < Here => k < j}
  BY <1>1 DEF TagsOf, Since
<1>6. CASE line.tag = "uri" /\ ~AfterStreamInf
  <2>1. Here \in PlainURIs'
    BY <1>6, LinesAdded
  <2>2. \A j \in 1 .. Here : ~(Here < j)
    BY <1>1
  <2>3. QED
    BY <1>1, <1>4, <1>6, <2>1, <2>2
<1>7. CASE ~(line.tag = "uri" /\ ~AfterStreamInf)
  <2>1. PlainURIs' = PlainURIs
    BY <1>7, LinesAdded
  <2>2. \A k \in PlainURIs : k < Here
    BY <1>1, <1>3
  <2>3. TagsOf(Here, tag) = {j \in Tagged(tag) : \A k \in PlainURIs : k < j}
    BY <1>3, <1>5, <2>2
  <2>4. TagsOf(Here, tag)' = {j \in Tagged(tag)' : \A k \in PlainURIs : k < j}
    <3>1. Tagged(tag)' \subseteq 1 .. Here /\ \A k \in PlainURIs : k < Here + 1
      BY <1>1, <1>2, <1>3, <2>2
    <3>2. QED
      BY <1>4, <2>1, <3>1
  <2>5. QED
    BY <1>2, <1>7, <2>2, <2>3, <2>4
<1>8. QED
  BY <1>6, <1>7

\* A line adds itself to those of the segments if it is such a URI and has a tag.
LEMMA SegmentsAdded ==
  ASSUME TypeOK, NEW line \in Line, Read(line)
  PROVE  SegmentLines' = SegmentLines \union
           (IF /\ line.tag = "uri" /\ ~AfterStreamInf
               /\ TagsOf(Here, "extInf") \union TagsOf(Here, "byteRange") # {}
            THEN {Here} ELSE {})
<1>1. /\ PlainURIs \subseteq 1 .. Here /\ Here \in 1 .. Here /\ Here \notin PlainURIs
  BY Within DEF Here
<1>2. PlainURIs' = PlainURIs \union (IF line.tag = "uri" /\ ~AfterStreamInf THEN {Here} ELSE {})
  BY LinesAdded
<1>3. ASSUME NEW i \in 1 .. Here
      PROVE  /\ TagsOf(i, "extInf")' = TagsOf(i, "extInf")
             /\ TagsOf(i, "byteRange")' = TagsOf(i, "byteRange")
  BY TagsStay
<1>4. SegmentLines' = {i \in PlainURIs' : TagsOf(i, "extInf")' \union TagsOf(i, "byteRange")' # {}}
  BY DEF SegmentLines
<1>5. QED
  BY <1>1, <1>2, <1>3, <1>4 DEF SegmentLines

-----------------------------------------------------------------------------
(* Positions: counting the lines up to one.                                 *)

\* T is S, or S with the line L + 1, after all of its own: the positions in S stay,
\* and a new line has the last.
Extends(T, S, L) ==
  /\ Cardinality(S) \in Nat
  /\ \A i \in S : Cardinality({j \in S : j <= i}) \in 1 .. Cardinality(S)
  /\ \A i \in S : {j \in T : j <= i} = {j \in S : j <= i}
  /\ \A i \in 1 .. L + 1 : {j \in T : j < i} = {j \in S : j < i}
  /\ {j \in S : j < L + 1} = S
  /\ L + 1 \in T => /\ Cardinality(T) = Cardinality(S) + 1
                    /\ {j \in T : j <= L + 1} = T
  /\ L + 1 \notin T => T = S

\* Adding a later line to a set of lines extends it.
LEMMA Positions ==
  ASSUME NEW L \in Nat, NEW S, S \subseteq 1 .. L, NEW T, T \in {S, S \union {L + 1}}
  PROVE  Extends(T, S, L)
<1>1. IsFiniteSet(S)
  BY FS_Interval, FS_Subset, 0 \in Int, 1 \in Int, L \in Int
<1>2. Cardinality(S) \in Nat
  BY <1>1, FS_CardinalityType
<1>3. ASSUME NEW i \in S PROVE Cardinality({j \in S : j <= i}) \in 1 .. Cardinality(S)
  <2>1. {j \in S : j <= i} \subseteq S /\ i \in {j \in S : j <= i}
    OBVIOUS
  <2>2. /\ IsFiniteSet({j \in S : j <= i})
        /\ Cardinality({j \in S : j <= i}) <= Cardinality(S)
    BY <1>1, <2>1, FS_Subset
  <2>3. Cardinality({j \in S : j <= i}) \in Nat /\ Cardinality({j \in S : j <= i}) # 0
    BY <2>1, <2>2, FS_CardinalityType, FS_EmptySet
  <2>4. QED
    BY <1>2, <2>2, <2>3
<1>4. L + 1 \notin S
  OBVIOUS
<1>5. L + 1 \in T => Cardinality(T) = Cardinality(S) + 1
  BY <1>1, <1>4, FS_AddElement
<1>6. ASSUME NEW i \in S PROVE {j \in T : j <= i} = {j \in S : j <= i}
  <2>1. ~(L + 1 <= i)
    OBVIOUS
  <2>2. QED
    BY <2>1
<1>7. ASSUME NEW i \in 1 .. L + 1 PROVE {j \in T : j < i} = {j \in S : j < i}
  <2>1. ~(L + 1 < i)
    OBVIOUS
  <2>2. QED
    BY <2>1
<1>8. {j \in S : j < L + 1} = S /\ (L + 1 \in T => {j \in T : j <= L + 1} = T)
  <2>1. \A j \in 1 .. L : j < L + 1 /\ j <= L + 1
    OBVIOUS
  <2>2. L + 1 <= L + 1
    OBVIOUS
  <2>3. QED
    BY <2>1, <2>2
<1>9. QED
  BY <1>2, <1>3, <1>4, <1>5, <1>6, <1>7, <1>8 DEF Extends

\* The segments keep their positions, and a new one has the last.
LEMMA SegmentPositions ==
  ASSUME TypeOK, NEW line \in Line, Read(line)
  PROVE  /\ Cardinality(SegmentLines) \in Nat
         /\ \A i \in SegmentLines : /\ Position(i) \in 1 .. Cardinality(SegmentLines)
                                    /\ Position(i)' = Position(i)
         /\ Here \in SegmentLines' => /\ Cardinality(SegmentLines') = Cardinality(SegmentLines) + 1
                                      /\ \A i \in SegmentLines' : i = Here =>
                                           Position(i)' = Cardinality(SegmentLines')
         /\ Here \notin SegmentLines' => SegmentLines' = SegmentLines
<1>1. /\ Len(doc) \in Nat /\ Here = Len(doc) + 1 /\ SegmentLines \subseteq 1 .. Len(doc)
      /\ SegmentLines' \in {SegmentLines, SegmentLines \union {Len(doc) + 1}}
  BY Within, SegmentsAdded DEF Here
<1>2. Extends(SegmentLines', SegmentLines, Len(doc))
  BY <1>1, Positions
<1>3. \A i : Position(i)' = Cardinality({j \in SegmentLines' : j <= i})
  BY DEF Position
<1>4. \A i : Position(i) = Cardinality({j \in SegmentLines : j <= i})
  BY DEF Position
<1>5. QED
  BY <1>1, <1>2, <1>3, <1>4 DEF Extends

\* So do the variants.
LEMMA VariantPositions ==
  ASSUME TypeOK, NEW line \in Line, Read(line)
  PROVE  /\ Cardinality(Variants) \in Nat
         /\ \A i \in Variants : /\ VariantPosition(i) \in 1 .. Cardinality(Variants)
                                /\ VariantPosition(i)' = VariantPosition(i)
         /\ Here \in Variants' => /\ Cardinality(Variants') = Cardinality(Variants) + 1
                                  /\ \A i \in Variants' : i = Here =>
                                       VariantPosition(i)' = Cardinality(Variants')
         /\ Here \notin Variants' => Variants' = Variants
<1>1. /\ Len(doc) \in Nat /\ Here = Len(doc) + 1 /\ Variants \subseteq 1 .. Len(doc)
      /\ Variants' \in {Variants, Variants \union {Len(doc) + 1}}
  BY Within, LinesAdded DEF Here
<1>2. Extends(Variants', Variants, Len(doc))
  BY <1>1, Positions
<1>3. \A i : VariantPosition(i)' = Cardinality({j \in Variants' : j <= i})
  BY DEF VariantPosition
<1>4. \A i : VariantPosition(i) = Cardinality({j \in Variants : j <= i})
  BY DEF VariantPosition
<1>5. QED
  BY <1>1, <1>2, <1>3, <1>4 DEF Extends

\* The keys before a line do not change once it is read; those before the next
\* line are all.
LEMMA KeysCounted ==
  ASSUME TypeOK, NEW line \in Line, Read(line)
  PROVE  /\ Cardinality(Tagged("key")) \in Nat
         /\ \A i \in 1 .. Here : KeysBefore(i)' = KeysBefore(i)
         /\ KeysBefore(Here) = Cardinality(Tagged("key"))
         /\ Cardinality(Tagged("key")') = Cardinality(Tagged("key")) + (IF line.tag = "key" THEN 1 ELSE 0)
<1>1. /\ Len(doc) \in Nat /\ Here = Len(doc) + 1 /\ Tagged("key") \subseteq 1 .. Len(doc)
      /\ Tagged("key")' = Tagged("key") \union (IF line.tag = "key" THEN {Len(doc) + 1} ELSE {})
  BY Within, LinesAdded DEF Here
<1>2. Tagged("key")' \in {Tagged("key"), Tagged("key") \union {Len(doc) + 1}}
  BY <1>1
<1>3. Len(doc) + 1 \in Tagged("key")' <=> line.tag = "key"
  BY <1>1
<1>4. Extends(Tagged("key")', Tagged("key"), Len(doc))
  BY <1>1, <1>2, Positions
<1>5. \A i : KeysBefore(i)' = Cardinality({k \in Tagged("key")' : k < i})
  BY DEF KeysBefore
<1>6. \A i : KeysBefore(i) = Cardinality({k \in Tagged("key") : k < i})
  BY DEF KeysBefore
<1>7. /\ Cardinality(Tagged("key")) \in Nat
      /\ \A i \in 1 .. Here : KeysBefore(i)' = KeysBefore(i)
      /\ KeysBefore(Here) = Cardinality(Tagged("key"))
  BY <1>1, <1>4, <1>5, <1>6 DEF Extends
<1>8. Cardinality(Tagged("key")') = Cardinality(Tagged("key")) + (IF line.tag = "key" THEN 1 ELSE 0)
  BY <1>3, <1>4 DEF Extends
<1>9. QED
  BY <1>7, <1>8

-----------------------------------------------------------------------------
(* The lists are what the document says.                                    *)

\* What the parser remembers of the lines it has read: it is at a variant, which
\* tags are open, how many keys there were, and with which of them the open
\* #EXTINF was read.
Tracked ==
  /\ variant <=> AfterStreamInf
  /\ extInf <=> TagsOf(Here, "extInf") # {}
  /\ extByte <=> TagsOf(Here, "byteRange") # {}
  /\ Len(keys) = Cardinality(Tagged("key"))
  /\ extInf => \E j \in TagsOf(Here, "extInf") : seg.key = KeysBefore(j)

Listed ==
  /\ status # "error" => Tracked
  /\ SegmentsAsListed /\ KeyInForce /\ VariantsAsListed

\* Which line is the last one.
LEMMA AfterLine ==
  ASSUME TypeOK, NEW line \in Line, Read(line)
  PROVE  AfterStreamInf' <=> line.tag = "streamInf"
<1>1. Len(doc) \in Nat /\ Len(doc') = Len(doc) + 1 /\ doc' \in Seq(Line) /\ doc'[Len(doc) + 1] = line
  BY Reads
<1>2. doc' # <<>>
  BY <1>1
<1>3. QED
  BY <1>1, <1>2 DEF AfterStreamInf

\* An error drops everything.
LEMMA Drops ==
  ASSUME TypeOK, NEW line \in Line, Read(line), line.tag # "streamInf", status' = "error"
  PROVE  Listed'
<1>1. ~AfterStreamInf'
  BY AfterLine
<1>2. QED
  BY <1>1 DEF Listed, SegmentsAsListed, KeyInForce, VariantsAsListed, AfterStreamInf

\* The parser keeps track if each line does to its variables what it does to the
\* tags that are open.
LEMMA Tracks ==
  ASSUME TypeOK, Tracked, NEW line \in Line, Read(line),
         NEW closes, closes = (line.tag = "uri" /\ ~variant),
         variant' <=> line.tag = "streamInf",
         extInf' <=> ~closes /\ (extInf \/ line.tag = "extInf"),
         extByte' <=> ~closes /\ (extByte \/ line.tag = "byteRange"),
         Len(keys') = Len(keys) + (IF line.tag = "key" THEN 1 ELSE 0),
         extInf' => seg'.key = IF extInf THEN seg.key ELSE Len(keys)
  PROVE  Tracked'
<1>1. closes <=> line.tag = "uri" /\ ~AfterStreamInf
  BY DEF Tracked
<1>2. variant' <=> AfterStreamInf'
  BY AfterLine
<1>3. TagsOf(Here, "extInf")' = IF line.tag = "uri" /\ ~AfterStreamInf THEN {}
        ELSE TagsOf(Here, "extInf") \union (IF line.tag = "extInf" THEN {Here} ELSE {})
  BY TagsOpen
<1>4. TagsOf(Here, "byteRange")' = IF line.tag = "uri" /\ ~AfterStreamInf THEN {}
        ELSE TagsOf(Here, "byteRange") \union (IF line.tag = "byteRange" THEN {Here} ELSE {})
  BY TagsOpen
<1>5. (extInf' <=> TagsOf(Here, "extInf")' # {}) /\ (extByte' <=> TagsOf(Here, "byteRange")' # {})
  BY <1>1, <1>3, <1>4 DEF Tracked
<1>6. Len(keys)' = Cardinality(Tagged("key")')
  BY KeysCounted DEF Tracked
<1>7. ASSUME extInf' PROVE \E j \in TagsOf(Here, "extInf")' : seg'.key = KeysBefore(j)'
  <2>1. TagsOf(Here, "extInf") \subseteq 1 .. Here /\ Here \in 1 .. Here
    BY Within DEF TagsOf
  <2>2. CASE extInf
    <3>1. PICK j \in TagsOf(Here, "extInf") : seg.key = KeysBefore(j)
      BY <2>2 DEF Tracked
    <3>2. KeysBefore(j)' = KeysBefore(j)
      BY <2>1, KeysCounted
    <3>3. j \in TagsOf(Here, "extInf")'
      BY <1>1, <1>3, <1>7
    <3>4. QED
      BY <1>7, <2>2, <3>1, <3>2, <3>3
  <2>3. CASE ~extInf
    <3>1. Here \in TagsOf(Here, "extInf")'
      BY <1>1, <1>3, <1>7, <2>3
    <3>2. \A i \in 1 .. Here : i = Here => KeysBefore(i)' = Len(keys)
      BY KeysCounted DEF Tracked
    <3>3. QED
      BY <1>7, <2>1, <2>3, <3>1, <3>2
  <2>4. QED
    BY <2>2, <2>3
<1>8. QED
  BY <1>2, <1>5, <1>6, <1>7 DEF Tracked

\* A line that is no URI of a segment leaves the list of the segments alone.
LEMMA SegmentsKept ==
  ASSUME TypeOK, Listed, NEW line \in Line, Read(line), segments' = segments,
         \/ line.tag # "uri" \/ AfterStreamInf
         \/ TagsOf(Here, "extInf") \union TagsOf(Here, "byteRange") = {}
  PROVE  SegmentsAsListed' /\ KeyInForce'
<1>1. SegmentLines' = SegmentLines
  BY SegmentsAdded
<1>2. SegmentLines \subseteq 1 .. Len(doc) /\ 1 .. Len(doc) \subseteq 1 .. Here
  BY Within DEF Here
<1>3. status # "error"
  BY Reads
<1>4. \A i \in SegmentLines : Position(i)' = Position(i)
  BY SegmentPositions
<1>5. SegmentsAsListed'
  <2>1. \A i \in SegmentLines : doc'[i] = doc[i]
    BY <1>2, Reads
  <2>2. QED
    BY <1>1, <1>3, <1>4, <2>1 DEF Listed, SegmentsAsListed
<1>6. KeyInForce'
  <2>1. SUFFICES ASSUME NEW i \in SegmentLines, TagsOf(i, "extInf")' # {},
                        segments'[Position(i)'].key # KeysBefore(i)'
                 PROVE  \E j \in TagsOf(i, "extInf")', k \in Tagged("key")' : j < k /\ k < i
    BY <1>1 DEF KeyInForce
  <2>2. TagsOf(i, "extInf")' = TagsOf(i, "extInf") /\ KeysBefore(i)' = KeysBefore(i)
    BY <1>2, TagsStay, KeysCounted
  <2>3. Tagged("key") \subseteq Tagged("key")'
    BY LinesAdded
  <2>4. QED
    BY <1>3, <1>4, <2>1, <2>2, <2>3 DEF Listed, KeyInForce
<1>7. QED
  BY <1>5, <1>6

\* The URI that closes a segment appends it, with the key that was in force at its
\* #EXTINF.
LEMMA SegmentAppended ==
  ASSUME TypeOK, Listed, NEW u \in URI, Read([tag |-> "uri", uri |-> u]), ~AfterStreamInf,
         extInf \/ extByte, segments' = Append(segments, Located(seg, u))
  PROVE  SegmentsAsListed' /\ KeyInForce'
<1> DEFINE line == [tag |-> "uri", uri |-> u]
<1>0. line \in Line /\ line.tag = "uri" /\ line.uri = u /\ Read(line)
  BY Lines
<1> HIDE DEF line
<1>1. status = "reading" /\ status # "error" /\ Tracked
  BY <1>0, Reads DEF Listed
<1>2. TagsOf(Here, "extInf") \union TagsOf(Here, "byteRange") # {}
  BY <1>1 DEF Tracked
<1>3. SegmentLines' = SegmentLines \union {Here}
  BY <1>0, <1>2, SegmentsAdded
<1>4. SegmentLines \subseteq 1 .. Len(doc) /\ 1 .. Len(doc) \subseteq 1 .. Here /\ Here \in 1 .. Here
  BY Within DEF Here
<1>5. /\ Cardinality(SegmentLines) \in Nat
      /\ \A i \in SegmentLines : /\ Position(i) \in 1 .. Cardinality(SegmentLines)
                                 /\ Position(i)' = Position(i)
      /\ Cardinality(SegmentLines') = Cardinality(SegmentLines) + 1
      /\ \A i \in SegmentLines' : i = Here => Position(i)' = Cardinality(SegmentLines')
  BY <1>0, <1>3, SegmentPositions
<1>6. Len(segments) = Cardinality(SegmentLines)
  BY <1>1 DEF Listed, SegmentsAsListed
<1>7. /\ Len(segments') = Len(segments) + 1
      /\ \A n \in 1 .. Len(segments) : segments'[n] = segments[n]
      /\ segments'[Len(segments) + 1] = Located(seg, u)
  BY LocatedTypes DEF TypeOK
<1>8. /\ \A i \in SegmentLines : segments'[Position(i)'] = segments[Position(i)]
      /\ \A i \in SegmentLines' : i = Here => segments'[Position(i)'] = Located(seg, u)
  BY <1>5, <1>6, <1>7
<1>9. SegmentsAsListed'
  <2>1. \A i \in SegmentLines : doc'[i] = doc[i]
    BY <1>0, <1>4, Reads
  <2>2. \A i \in SegmentLines' : i = Here => doc'[i].uri = u
    BY <1>0, Reads DEF Here
  <2>3. Located(seg, u).uri = u
    BY LocatedTypes
  <2>4. \A i \in SegmentLines' : segments'[Position(i)'].uri = doc'[i].uri
    BY <1>1, <1>3, <1>8, <2>1, <2>2, <2>3 DEF Listed, SegmentsAsListed
  <2>5. QED
    BY <1>5, <1>6, <1>7, <2>4 DEF SegmentsAsListed
<1>10. KeyInForce'
  <2>1. SUFFICES ASSUME NEW i \in SegmentLines', TagsOf(i, "extInf")' # {},
                        segments'[Position(i)'].key # KeysBefore(i)'
                 PROVE  \E j \in TagsOf(i, "extInf")', k \in Tagged("key")' : j < k /\ k < i
    BY DEF KeyInForce
  <2>2. i \in 1 .. Here
    BY <1>3, <1>4
  <2>3. TagsOf(i, "extInf")' = TagsOf(i, "extInf") /\ KeysBefore(i)' = KeysBefore(i)
    BY <1>0, <2>2, TagsStay, KeysCounted
  <2>4. Tagged("key") \subseteq Tagged("key")'
    BY <1>0, LinesAdded
  <2>5. CASE i \in SegmentLines
    BY <1>1, <1>8, <2>1, <2>3, <2>4, <2>5 DEF Listed, KeyInForce
  <2>6. CASE i = Here
    <3>1. segments'[Position(i)'].key = seg.key
      BY <1>8, <2>6, LocatedTypes
    <3>2. PICK j \in TagsOf(i, "extInf") : seg.key = KeysBefore(j)
      BY <1>1, <2>1, <2>3, <2>6 DEF Tracked
    <3>3. j \in Tagged("extInf") /\ j \in 1 .. i - 1
      BY DEF TagsOf, Since
    <3>4. j \notin Tagged("key")
      BY <3>3 DEF Tagged
    <3>5. {k \in Tagged("key") : k < j} # {k \in Tagged("key") : k < i}
      BY <2>1, <2>3, <3>1, <3>2 DEF KeysBefore
    <3>6. Tagged("key") \subseteq Nat /\ i \in Nat /\ j \in Nat /\ j < i
      BY <2>2, <3>3, Within
    <3>7. PICK k \in Tagged("key") : k < i /\ ~(k < j)
      BY <3>5, <3>6
    <3>8. j < k
      BY <3>4, <3>6, <3>7
    <3>9. QED
      BY <2>3, <2>4, <3>2, <3>7, <3>8
  <2>7. QED
    BY <1>3, <2>5, <2>6
<1>11. QED
  BY <1>9, <1>10

\* So is the list of the variants, but for the line after #EXT-X-STREAM-INF.
LEMMA VariantsKept ==
  ASSUME TypeOK, Listed, NEW line \in Line, Read(line), ~AfterStreamInf, status' = status,
         variants' = variants
  PROVE  VariantsAsListed'
<1>1. Variants' = Variants /\ Variants \subseteq 1 .. Len(doc)
  BY LinesAdded, Within
<1>2. status = "reading"
  BY Reads
<1>3. \A i \in Variants : VariantPosition(i)' = VariantPosition(i)
  BY VariantPositions
<1>4. \A i \in Variants : doc'[i] = doc[i]
  BY <1>1, Reads
<1>5. QED
  BY <1>1, <1>2, <1>3, <1>4 DEF Listed, VariantsAsListed

\* That line is appended, as the variant it belongs to.
LEMMA VariantAppended ==
  ASSUME TypeOK, Listed, NEW u \in URI, Read([tag |-> "uri", uri |-> u]), AfterStreamInf,
         status' = status, variants' = Append(variants, u)
  PROVE  VariantsAsListed'
<1> DEFINE line == [tag |-> "uri", uri |-> u]
<1>0. line \in Line /\ line.tag = "uri" /\ line.uri = u /\ Read(line)
  BY Lines
<1> HIDE DEF line
<1>1. status = "reading"
  BY <1>0, Reads
<1>2. Variants' = Variants \union {Here} /\ Variants \subseteq 1 .. Len(doc)
  BY <1>0, LinesAdded, Within
<1>3. /\ Cardinality(Variants) \in Nat
      /\ \A i \in Variants : /\ VariantPosition(i) \in 1 .. Cardinality(Variants)
                             /\ VariantPosition(i)' = VariantPosition(i)
      /\ Cardinality(Variants') = Cardinality(Variants) + 1
      /\ \A i \in Variants' : i = Here => VariantPosition(i)' = Cardinality(Variants')
  BY <1>0, <1>2, VariantPositions
<1>4. Len(variants) = Cardinality(Variants)
  BY <1>1 DEF Listed, VariantsAsListed
<1>5. /\ Len(variants') = Len(variants) + 1
      /\ \A n \in 1 .. Len(variants) : variants'[n] = variants[n]
      /\ variants'[Len(variants) + 1] = u
  BY DEF TypeOK
<1>6. /\ \A i \in Variants : doc'[i] = doc[i]
      /\ \A i \in Variants' : i = Here => doc'[i] = line
  BY <1>0, <1>2, Reads DEF Here
<1>7. \A i \in Variants' : doc'[i].tag = "uri" /\ variants'[VariantPosition(i)'] = doc'[i].uri
  <2>1. ASSUME NEW i \in Variants
        PROVE  doc'[i].tag = "uri" /\ variants'[VariantPosition(i)'] = doc'[i].uri
    BY <1>1, <1>3, <1>4, <1>5, <1>6 DEF Listed, VariantsAsListed
  <2>2. ASSUME NEW i \in Variants', i = Here
        PROVE  doc'[i].tag = "uri" /\ variants'[VariantPosition(i)'] = doc'[i].uri
    BY <1>0, <1>3, <1>4, <1>5, <1>6, <2>2
  <2>3. QED
    BY <1>2, <2>1, <2>2
<1>8. QED
  BY <1>1, <1>3, <1>4, <1>5, <1>7 DEF VariantsAsListed

\* The pass and the end of the document change no URI, no key and no line.
LEMMA ListedAlone ==
  ASSUME Listed, TypeOK, UNCHANGED <<doc, variants, keys, seg, extInf, extByte, variant>>,
         Len(segments') = Len(segments), status # "error", status' # "error",
         \A n \in 1 .. Len(segments) :
           segments'[n].uri = segments[n].uri /\ segments'[n].key = segments[n].key,
         status' = "panic" <=> status' # "reading" /\ AfterStreamInf
  PROVE  Listed'
<1>1. /\ Tagged("key")' = Tagged("key") /\ Variants' = Variants /\ SegmentLines' = SegmentLines
      /\ AfterStreamInf' = AfterStreamInf
      /\ \A i : /\ Position(i)' = Position(i) /\ VariantPosition(i)' = VariantPosition(i)
                /\ KeysBefore(i)' = KeysBefore(i)
                /\ TagsOf(i, "extInf")' = TagsOf(i, "extInf")
                /\ TagsOf(i, "byteRange")' = TagsOf(i, "byteRange")
  BY DEF Tagged, Variants, SegmentLines, AfterStreamInf, Position, VariantPosition, KeysBefore,
         TagsOf, Since, PlainURIs
<1>2. Tracked'
  BY DEF Listed, Tracked, AfterStreamInf, TagsOf, Since, PlainURIs, Variants, Tagged, Here,
         KeysBefore
<1>3. \A i \in SegmentLines : Position(i) \in 1 .. Len(segments)
  <2>1. Len(doc) \in Nat /\ SegmentLines \subseteq 1 .. Len(doc) /\ Len(segments) = Cardinality(SegmentLines)
    BY Within DEF Listed, SegmentsAsListed
  <2>2. Extends(SegmentLines, SegmentLines, Len(doc))
    BY <2>1, Positions
  <2>3. QED
    BY <2>1, <2>2 DEF Extends, Position
<1>4. SegmentsAsListed' /\ KeyInForce'
  BY <1>1, <1>3 DEF Listed, SegmentsAsListed, KeyInForce
<1>5. VariantsAsListed'
  BY <1>1 DEF Listed, VariantsAsListed, AfterStreamInf
<1>6. QED
  BY <1>2, <1>4, <1>5 DEF Listed

\* Each step keeps the lists.
LEMMA ListedStep ==
  ASSUME TypeOK, Listed, [Next]_vars
  PROVE  Listed'
<1>0. TypeOK'
  BY TypesStep
<1>1. ASSUME NEW line \in Line, Read(line) PROVE status = "reading" /\ Tracked
  BY <1>1, Reads DEF Listed
<1>2. ASSUME NEW tag \in {"header", "other"}, Header(Plain(tag)) PROVE Listed'
  <2>1. Plain(tag) \in Line /\ Plain(tag).tag = tag /\ Read(Plain(tag)) /\ doc = <<>>
    BY <1>2, Lines DEF Header
  <2>2. CASE status' = "error"
    BY <2>1, <2>2, Drops
  <2>3. CASE status' # "error"
    <3>1. ~AfterStreamInf
      BY <2>1 DEF AfterStreamInf
    <3>2. UNCHANGED <<status, segments, variants, keys, seg, extInf, extByte, variant>>
      BY <1>2, <2>3 DEF Header, Fail, parserVars, segVars
    <3>3. SegmentsAsListed' /\ KeyInForce' /\ VariantsAsListed'
      BY <2>1, <3>1, <3>2, SegmentsKept, VariantsKept
    <3>4. Tracked'
      <4>1. Tracked /\ ~variant
        BY <1>1, <2>1, <3>1 DEF Tracked
      <4>2. Len(keys') = Len(keys) + 0
        BY <3>2 DEF TypeOK
      <4>3. QED
        BY <2>1, <3>2, <4>1, <4>2, Tracks
    <3>5. QED
      BY <3>3, <3>4 DEF Listed
  <2>4. QED
    BY <2>2, <2>3
<1>3. ASSUME NEW line \in Line, Read(line), InBody PROVE ~variant /\ ~AfterStreamInf
  BY <1>1, <1>3 DEF InBody, Tracked
<1>4. CASE Ignore
  <2>1. /\ Plain("other") \in Line /\ Plain("other").tag = "other" /\ Read(Plain("other"))
        /\ UNCHANGED <<status, segments, variants, keys, seg, extInf, extByte, variant>>
    BY <1>4, Lines DEF Ignore, parserVars, segVars
  <2>2. ~variant /\ ~AfterStreamInf /\ Tracked
    BY <1>1, <1>3, <1>4, <2>1 DEF Ignore
  <2>3. Len(keys') = Len(keys) + 0
    BY <2>1 DEF TypeOK
  <2>4. Tracked'
    BY <2>1, <2>2, <2>3, Tracks
  <2>5. QED
    BY <2>1, <2>2, <2>4, SegmentsKept, VariantsKept DEF Listed
<1>5. CASE Malformed
  <2>1. /\ Plain("malformed") \in Line /\ Plain("malformed").tag # "streamInf"
        /\ Read(Plain("malformed")) /\ status' = "error"
    BY <1>5, Lines DEF Malformed, Fail
  <2>2. QED
    BY <2>1, Drops
<1>6. CASE StreamInf
  <2>1. /\ Plain("streamInf") \in Line /\ Plain("streamInf").tag = "streamInf" /\ Read(Plain("streamInf"))
        /\ UNCHANGED <<status, segments, variants, keys, seg, extInf, extByte>> /\ variant'
    BY <1>6, Lines DEF StreamInf, segVars
  <2>2. ~variant /\ ~AfterStreamInf /\ Tracked
    BY <1>1, <1>3, <1>6, <2>1 DEF StreamInf
  <2>3. Len(keys') = Len(keys) + 0
    BY <2>1 DEF TypeOK
  <2>4. Tracked'
    BY <2>1, <2>2, <2>3, Tracks
  <2>5. QED
    BY <2>1, <2>2, <2>4, SegmentsKept, VariantsKept DEF Listed
<1>7. CASE ExtInf
  <2>1. Plain("extInf") \in Line /\ Plain("extInf").tag = "extInf" /\ Read(Plain("extInf"))
    BY <1>7, Lines DEF ExtInf
  <2>2. CASE extInf
    BY <1>7, <2>1, <2>2, Drops DEF ExtInf, Fail
  <2>3. CASE ~extInf
    <3>1. /\ seg' = [seg EXCEPT !.key = Len(keys)] /\ extInf'
          /\ UNCHANGED <<status, segments, variants, keys, extByte, variant>>
      BY <1>7, <2>3 DEF ExtInf
    <3>2. ~variant /\ ~AfterStreamInf /\ Tracked
      BY <1>1, <1>3, <1>7, <2>1 DEF ExtInf
    <3>3. Len(keys') = Len(keys) + 0 /\ seg'.key = Len(keys)
      BY <3>1 DEF TypeOK
    <3>4. Tracked'
      BY <2>1, <2>3, <3>1, <3>2, <3>3, Tracks
    <3>5. QED
      BY <2>1, <3>1, <3>2, <3>4, SegmentsKept, VariantsKept DEF Listed
  <2>4. QED
    BY <2>2, <2>3
<1>8. ASSUME NEW tag \in {"other", "extInf"}, VariantLine(Plain(tag)) PROVE Listed'
  <2>1. /\ Plain(tag) \in Line /\ Plain(tag).tag = tag /\ Read(Plain(tag)) /\ status' = "error"
    BY <1>8, Lines DEF VariantLine, Fail
  <2>2. QED
    BY <2>1, Drops
<1>9. ASSUME NEW u \in URI, SegmentURI(u) PROVE Listed'
  <2> DEFINE line == [tag |-> "uri", uri |-> u]
  <2>1. /\ line \in Line /\ line.tag = "uri" /\ Read(line)
        /\ UNCHANGED <<status, variants, keys, variant>>
    BY <1>9, Lines DEF SegmentURI
  <2>2. ~variant /\ ~AfterStreamInf /\ Tracked
    BY <1>1, <1>3, <1>9, <2>1 DEF SegmentURI
  <2>3. ~extInf' /\ ~extByte'
    BY <1>9 DEF SegmentURI, segVars
  <2>4. Tracked'
    <3>1. Len(keys') = Len(keys) + 0
      BY <2>1 DEF TypeOK
    <3> HIDE DEF line
    <3>2. QED
      BY <2>1, <2>2, <2>3, <3>1, Tracks
  <2>5. VariantsAsListed'
    <3> HIDE DEF line
    <3>1. QED
      BY <2>1, <2>2, VariantsKept
  <2>6. SegmentsAsListed' /\ KeyInForce'
    <3>1. CASE extInf \/ extByte
      BY <1>9, <2>1, <2>2, <3>1, SegmentAppended DEF SegmentURI
    <3>2. CASE ~(extInf \/ extByte)
      <4>1. segments' = segments
        BY <1>9, <3>2 DEF SegmentURI
      <4>2. TagsOf(Here, "extInf") \union TagsOf(Here, "byteRange") = {}
        BY <2>2, <3>2 DEF Tracked
      <4> HIDE DEF line
      <4>3. QED
        BY <2>1, <4>1, <4>2, SegmentsKept
    <3>3. QED
      BY <3>1, <3>2
  <2>7. QED
    BY <2>4, <2>5, <2>6 DEF Listed
<1>10. ASSUME NEW u \in URI, VariantLine([tag |-> "uri", uri |-> u]) PROVE Listed'
  <2> DEFINE line == [tag |-> "uri", uri |-> u]
  <2>1. /\ line \in Line /\ line.tag = "uri" /\ Read(line) /\ variant
        /\ variants' = Append(variants, u) /\ ~variant'
        /\ UNCHANGED <<status, segments, keys, seg, extInf, extByte>>
    BY <1>10, Lines DEF VariantLine, segVars
  <2>2. Tracked /\ AfterStreamInf
    BY <1>1, <2>1 DEF Tracked
  <2>3. VariantsAsListed'
    BY <2>1, <2>2, VariantAppended
  <2> HIDE DEF line
  <2>4. Len(keys') = Len(keys) + 0
    BY <2>1 DEF TypeOK
  <2>5. Tracked'
    BY <2>1, <2>2, <2>4, Tracks
  <2>6. SegmentsAsListed' /\ KeyInForce'
    BY <2>1, <2>2, SegmentsKept
  <2>7. QED
    BY <2>3, <2>5, <2>6 DEF Listed
<1>11. ASSUME NEW r \in Ranges, ByteRange(r) PROVE Listed'
  <2> DEFINE line == [tag |-> "byteRange", range |-> r]
  <2>1. line \in Line /\ line.tag = "byteRange" /\ Read(line)
    BY <1>11, Lines DEF ByteRange
  <2>2. ~variant /\ ~AfterStreamInf /\ Tracked
    BY <1>1, <1>3, <1>11, <2>1 DEF ByteRange
  <2> HIDE DEF line
  <2>3. CASE extByte
    BY <1>11, <2>1, <2>3, Drops DEF ByteRange, Fail
  <2>4. CASE ~extByte
    <3>1. /\ seg' = [seg EXCEPT !.length = r.length, !.offset = r.offset, !.explicit = r.explicit]
          /\ extByte' /\ UNCHANGED <<status, segments, variants, keys, extInf, variant>>
      BY <1>11, <2>4 DEF ByteRange
    <3>2. Len(keys') = Len(keys) + 0 /\ seg'.key = seg.key
      BY <3>1 DEF TypeOK
    <3>3. Tracked'
      BY <2>1, <2>2, <2>4, <3>1, <3>2, Tracks
    <3>4. QED
      BY <2>1, <2>2, <3>1, <3>3, SegmentsKept, VariantsKept DEF Listed
  <2>5. QED
    BY <2>3, <2>4
<1>12. ASSUME NEW m \in Method, KeyTag(m) PROVE Listed'
  <2> DEFINE line == [tag |-> "key", method |-> m]
  <2>1. /\ line \in Line /\ line.tag = "key" /\ Read(line) /\ keys' = Append(keys, m)
        /\ UNCHANGED <<status, segments, variants, seg, extInf, extByte, variant>>
    BY <1>12, Lines DEF KeyTag, segVars
  <2>2. ~variant /\ ~AfterStreamInf /\ Tracked
    BY <1>1, <1>3, <1>12, <2>1 DEF KeyTag
  <2> HIDE DEF line
  <2>3. Len(keys') = Len(keys) + 1
    BY <2>1 DEF TypeOK
  <2>4. Tracked'
    BY <2>1, <2>2, <2>3, Tracks
  <2>5. QED
    BY <2>1, <2>2, <2>4, SegmentsKept, VariantsKept DEF Listed
<1>13. CASE Finish
  <2>1. /\ status = "reading" /\ status' = IF variant THEN "panic" ELSE "resolving"
        /\ UNCHANGED <<doc, segments, variants, keys, seg, extInf, extByte, variant>>
    BY <1>13 DEF Finish, parserVars, segVars
  <2>2. variant <=> AfterStreamInf
    BY <2>1 DEF Listed, Tracked
  <2>3. QED
    BY <2>1, <2>2, ListedAlone
<1>14. CASE resolve
  <2>1. /\ status = "resolving" /\ status' = status
        /\ UNCHANGED <<doc, variants, keys, seg, extInf, extByte, variant>>
    BY <1>14 DEF resolve, Resolving, segVars
  <2>2. /\ Len(segments') = Len(segments)
        /\ \A n \in 1 .. Len(segments) :
             segments'[n].uri = segments[n].uri /\ segments'[n].key = segments[n].key
    <3>1. DOMAIN segments = 1 .. Len(segments)
      BY DEF TypeOK
    <3>2. QED
      BY <1>14, <3>1, Resolves
  <2>3. ~AfterStreamInf
    BY <2>1 DEF Listed, VariantsAsListed, AfterStreamInf
  <2>4. QED
    BY <2>1, <2>2, <2>3, ListedAlone
<1>15. CASE Return
  <2>1. /\ status = "resolving" /\ status' = "parsed"
        /\ UNCHANGED <<doc, segments, variants, keys, seg, extInf, extByte, variant>>
    BY <1>15 DEF Return, parserVars, segVars
  <2>2. ~AfterStreamInf
    BY <2>1 DEF Listed, VariantsAsListed, AfterStreamInf
  <2>3. QED
    BY <2>1, <2>2, ListedAlone
<1>16. CASE UNCHANGED vars
  <2>1. UNCHANGED <<doc, status, segments, variants, keys, seg, extInf, extByte, variant>>
    BY <1>16, Stutters
  <2>2. status = "panic" <=> status # "reading" /\ AfterStreamInf
    BY DEF Listed, VariantsAsListed, AfterStreamInf
  <2>3. CASE status = "error"
    BY <2>1, <2>2, <2>3 DEF Listed, SegmentsAsListed, KeyInForce, VariantsAsListed, AfterStreamInf
  <2>4. CASE status # "error"
    BY <2>1, <2>2, <2>4, ListedAlone
  <2>5. QED
    BY <2>3, <2>4
<1>17. QED
  BY <1>2, <1>4, <1>5, <1>6, <1>7, <1>8, <1>9, <1>10, <1>11, <1>12, <1>13, <1>14, <1>15, <1>16,
     NextCases

\* The inductive invariant of the lists, for documents of any length.
THEOREM ListedCorrect == Spec => []Listed
<1>1. Init => Listed
  <2>1. SUFFICES ASSUME Init PROVE Listed
    OBVIOUS
  <2>2. /\ doc = <<>> /\ status = "reading" /\ segments = <<>> /\ variants = <<>> /\ keys = <<>>
        /\ ~extInf /\ ~extByte /\ ~variant
    BY <2>1 DEF Init
  <2>3. /\ \A tag : Tagged(tag) = {}
        /\ Variants = {} /\ PlainURIs = {} /\ SegmentLines = {} /\ ~AfterStreamInf
    BY <2>2 DEF Tagged, Variants, PlainURIs, SegmentLines, AfterStreamInf
  <2>4. \A i, tag : TagsOf(i, tag) = {}
    BY <2>3 DEF TagsOf
  <2>5. Cardinality({}) = 0 /\ Len(segments) = 0 /\ Len(keys) = 0 /\ Len(variants) = 0
    BY <2>2, FS_EmptySet
  <2>6. QED
    BY <2>2, <2>3, <2>4, <2>5 DEF Listed, Tracked, SegmentsAsListed, KeyInForce,
       VariantsAsListed, AfterStreamInf
<1>2. QED
  BY <1>1, ListedStep, TypeCorrect, PTL DEF Spec

\* The segments of any document are its URIs with a tag of their own, in order.
THEOREM SegmentsAsListedCorrect == Spec => []SegmentsAsListed
BY ListedCorrect, PTL DEF Listed

\* A segment of any document has the key in force where it stands.
THEOREM KeyInForceCorrect == Spec => []KeyInForce
BY ListedCorrect, PTL DEF Listed

\* The variants of any document are the lines after a #EXT-X-STREAM-INF, and parse
\* panics exactly when there is none after the last.
THEOREM VariantsAsListedCorrect == Spec => []VariantsAsListed
BY ListedCorrect, PTL DEF Listed

-----------------------------------------------------------------------------
(* The byte ranges.                                                         *)

RangesBefore(u, n) == {m \in 1 .. n - 1 : segments[m].length > 0 /\ segments[m].uri = u}

\* Of the ranges that the pass has come past, the map has the end of the last one.
EndKnown(u) ==
  IF lastEnd[u] = NoEnd THEN RangesBefore(u, next) = {}
  ELSE \E m \in RangesBefore(u, next) : /\ \A k \in RangesBefore(u, next) : k <= m
                                        /\ lastEnd[u] = End(m)

Adjoins(n) ==
  segments[n].length > 0 /\ ~segments[n].explicit =>
    \/ Earlier(n) = {} /\ segments[n].offset = 0
    \/ \E m \in Earlier(n) : /\ \A k \in Earlier(n) : k <= m
                             /\ segments[n].offset = End(m)

Resolved ==
  /\ status \notin {"resolving", "parsed"} => next = 1 /\ lastEnd = [u \in URI |-> NoEnd]
  /\ status = "parsed" => next = Len(segments) + 1
  /\ \A u \in URI : EndKnown(u)
  /\ \A n \in 1 .. next - 1 : Adjoins(n)

\* Before the pass there is nothing to know.
LEMMA Unresolved ==
  ASSUME next = 1, lastEnd = [u \in URI |-> NoEnd], status # "parsed"
  PROVE  Resolved
<1>1. 1 .. next - 1 = {}
  BY 1 - 1 = 0, 1 .. 0 = {}
<1>2. \A u \in URI : lastEnd[u] = NoEnd /\ RangesBefore(u, next) = {}
  BY <1>1 DEF RangesBefore
<1>3. QED
  BY <1>1, <1>2 DEF Resolved, EndKnown

\* While the document is read, the pass has not begun.
LEMMA ReadingWaits ==
  ASSUME [Next]_vars, status = "reading"
  PROVE  status' # "parsed" /\ UNCHANGED <<next, lastEnd>>
<1>1. ASSUME NEW tag \in {"header", "other"}, Header(Plain(tag))
      PROVE  status' # "parsed" /\ UNCHANGED <<next, lastEnd>>
  BY <1>1 DEF Header, Fail, parserVars, resolveVars
<1>2. CASE Ignore \/ Malformed \/ StreamInf \/ ExtInf
  BY <1>2 DEF Ignore, Malformed, StreamInf, ExtInf, Fail, parserVars, resolveVars
<1>3. ASSUME NEW tag \in {"other", "extInf"}, VariantLine(Plain(tag))
      PROVE  status' # "parsed" /\ UNCHANGED <<next, lastEnd>>
  BY <1>3 DEF VariantLine, Fail, parserVars, resolveVars
<1>4. ASSUME NEW u \in URI, SegmentURI(u) \/ VariantLine([tag |-> "uri", uri |-> u])
      PROVE  status' # "parsed" /\ UNCHANGED <<next, lastEnd>>
  BY <1>4 DEF SegmentURI, VariantLine, Fail, parserVars, resolveVars
<1>5. ASSUME NEW r \in Ranges, ByteRange(r)
      PROVE  status' # "parsed" /\ UNCHANGED <<next, lastEnd>>
  BY <1>5 DEF ByteRange, Fail, parserVars, resolveVars
<1>6. ASSUME NEW m \in Method, KeyTag(m)
      PROVE  status' # "parsed" /\ UNCHANGED <<next, lastEnd>>
  BY <1>6 DEF KeyTag, resolveVars
<1>7. CASE Finish
  BY <1>7 DEF Finish, parserVars, resolveVars
<1>8. CASE UNCHANGED vars
  BY <1>8, Stutters
<1>9. QED
  BY <1>1, <1>2, <1>3, <1>4, <1>5, <1>6, <1>7, <1>8, NextCases DEF resolve, Resolving, Return

\* After it nothing but the pass and the return.
LEMMA ReadingEnds ==
  ASSUME [Next]_vars, status # "reading"
  PROVE  resolve \/ Return \/ UNCHANGED vars
BY NextCases DEF Header, Ignore, Malformed, StreamInf, ExtInf, VariantLine, SegmentURI, ByteRange,
   KeyTag, Finish, Read

\* A step of the pass: the ranges before the segment stay, and the segment, if it is a
\* range, is the last of its resource.
LEMMA ResolveStep ==
  ASSUME TypeOK, Resolved, resolve
  PROVE  Resolved'
<1>1. /\ status = "resolving" /\ status' = status /\ next \in 1 .. Len(segments) /\ next' = next + 1
      /\ Len(segments) \in Nat /\ DOMAIN segments = 1 .. Len(segments)
      /\ \A n \in 1 .. Len(segments) : segments[n] \in Segment
  BY DEF resolve, Resolving, TypeOK
<1> DEFINE s == segments[next]
           ranged == s.length # 0
<1>2. s \in Segment /\ s.uri \in URI /\ s.length \in Nat /\ s.explicit \in BOOLEAN
  BY <1>1, Offsets DEF Segment
<1>3. /\ \A n \in 1 .. Len(segments) : n # next => segments'[n] = segments[n]
      /\ \A n \in 1 .. Len(segments) : /\ segments'[n].uri = segments[n].uri
                                       /\ segments'[n].length = segments[n].length
                                       /\ segments'[n].explicit = segments[n].explicit
      /\ ranged => segments'[next].offset = StartOf(s)
  BY <1>1, Resolves
<1>4. /\ ranged => lastEnd' = [lastEnd EXCEPT ![s.uri] = Wrap(StartOf(s) + s.length)]
      /\ ~ranged => lastEnd' = lastEnd
  BY DEF resolve
<1>5. lastEnd \in [URI -> Offset \union {NoEnd}] /\ StartOf(s) \in Nat
  <2>1. lastEnd \in [URI -> Offset \union {NoEnd}]
    BY DEF TypeOK
  <2>2. StartOf(s) \in Offset
    BY <1>2, <2>1, Offsets DEF StartOf, Segment
  <2>3. QED
    BY <2>1, <2>2, Offsets
<1>6. ranged <=> s.length > 0
  BY <1>2
<1> HIDE DEF s, ranged
<1>7. PICK i \in 1 .. Len(segments) : i = next
  BY <1>1
<1>8. \A n \in 1 .. i : \A m \in 1 .. n - 1 :
        m \in 1 .. Len(segments) /\ m # i /\ m < i /\ segments'[m] = segments[m] /\ End(m)' = End(m)
  BY <1>3, <1>7 DEF End
<1>9. /\ segments'[i].uri = s.uri /\ segments'[i].length = s.length
      /\ segments'[i].explicit = s.explicit
      /\ ranged => segments'[i].offset = StartOf(s) /\ End(i)' = Wrap(StartOf(s) + s.length)
  BY <1>3, <1>7 DEF End, s
<1>10. \A u : RangesBefore(u, next)' = RangesBefore(u, next)
                \union (IF ranged /\ s.uri = u THEN {i} ELSE {})
  <2>1. 1 .. next' - 1 = (1 .. i - 1) \union {i} /\ i \notin 1 .. i - 1
    BY <1>1, <1>7
  <2>2. \A u : RangesBefore(u, next)' = {m \in (1 .. i - 1) \union {i} : segments'[m].length > 0 /\ segments'[m].uri = u}
    BY <2>1 DEF RangesBefore
  <2>3. \A u : RangesBefore(u, next) = {m \in 1 .. i - 1 : segments[m].length > 0 /\ segments[m].uri = u}
    BY <1>7 DEF RangesBefore
  <2>4. QED
    BY <1>6, <1>8, <1>9, <2>2, <2>3
<1>11. \A u : RangesBefore(u, next) \subseteq 1 .. i - 1
  BY <1>7 DEF RangesBefore
<1>12. ASSUME NEW u \in URI PROVE EndKnown(u)'
  <2>1. EndKnown(u)
    BY DEF Resolved
  <2>2. CASE ranged /\ s.uri = u
    <3>1. lastEnd'[u] = End(i)' /\ lastEnd'[u] # NoEnd
      <4>1. Wrap(StartOf(s) + s.length) \in Offset
        BY <1>2, <1>5, Offsets
      <4>2. QED
        BY <1>4, <1>5, <1>9, <2>2, <4>1, Offsets
    <3>2. i \in RangesBefore(u, next)' /\ \A k \in RangesBefore(u, next)' : k <= i
      BY <1>8, <1>10, <1>11, <2>2
    <3>3. QED
      BY <3>1, <3>2 DEF EndKnown
  <2>3. CASE ~(ranged /\ s.uri = u)
    <3>1. RangesBefore(u, next)' = RangesBefore(u, next)
      BY <1>10, <2>3
    <3>2. lastEnd'[u] = lastEnd[u]
      BY <1>4, <1>5, <2>3
    <3>3. \A m \in RangesBefore(u, next) : End(m)' = End(m)
      BY <1>8, <1>11, i \in 1 .. i
    <3>4. QED
      BY <2>1, <3>1, <3>2, <3>3 DEF EndKnown
  <2>4. QED
    BY <2>2, <2>3
<1>13. \A n \in 1 .. i : Earlier(n)' = Earlier(n) /\ Earlier(n) \subseteq 1 .. n - 1
  <2>1. \A n \in 1 .. i : segments'[n].uri = segments[n].uri
    BY <1>3
  <2>2. \A n \in 1 .. i : Earlier(n)' = {m \in 1 .. n - 1 : segments'[m].length > 0 /\ segments'[m].uri = segments'[n].uri}
    BY DEF Earlier
  <2>3. QED
    BY <1>8, <2>1, <2>2 DEF Earlier
<1>14. ASSUME NEW n \in 1 .. i - 1 PROVE Adjoins(n)'
  <2>1. Adjoins(n) /\ n \in 1 .. i
    BY <1>7 DEF Resolved
  <2>2. segments'[n] = segments[n] /\ \A m \in Earlier(n) : End(m)' = End(m)
    BY <1>8, <1>13, <2>1
  <2>3. QED
    BY <1>13, <2>1, <2>2 DEF Adjoins
<1>15. Adjoins(i)'
  <2>1. SUFFICES ASSUME ranged, ~s.explicit
                 PROVE  \/ Earlier(i) = {} /\ segments'[i].offset = 0
                        \/ \E m \in Earlier(i) : /\ \A k \in Earlier(i) : k <= m
                                                 /\ segments'[i].offset = End(m)'
    BY <1>6, <1>9, <1>13 DEF Adjoins
  <2>2. Earlier(i) = RangesBefore(s.uri, next)
    BY <1>7 DEF Earlier, RangesBefore, s
  <2>3. EndKnown(s.uri)
    BY <1>2 DEF Resolved
  <2>4. segments'[i].offset = IF lastEnd[s.uri] # NoEnd THEN lastEnd[s.uri] ELSE 0
    BY <1>9, <2>1 DEF StartOf
  <2>5. \A m \in Earlier(i) : End(m)' = End(m)
    BY <1>8, <1>13, i \in 1 .. i
  <2>6. QED
    BY <2>2, <2>3, <2>4, <2>5 DEF EndKnown
<1>16. \A n \in 1 .. next' - 1 : Adjoins(n)'
  <2>1. \A n \in 1 .. next' - 1 : n \in 1 .. i - 1 \/ n = i
    BY <1>1, <1>7
  <2>2. QED
    BY <1>14, <1>15, <2>1
<1>17. QED
  BY <1>1, <1>12, <1>16 DEF Resolved

\* The inductive invariant of the pass: what it has resolved adjoins, and the map has
\* the end of the last range of each resource.
THEOREM ResolvedCorrect == Spec => []Resolved
<1>0. next = 1 /\ lastEnd = [u \in URI |-> NoEnd] /\ status # "parsed" => Resolved
  BY Unresolved
<1>1. Init => Resolved
  BY Unresolved DEF Init
<1>2. ASSUME TypeOK, Resolved, [Next]_vars PROVE Resolved'
  <2>1. CASE status = "reading"
    <3>1. next = 1 /\ lastEnd = [u \in URI |-> NoEnd]
      BY <1>2, <2>1 DEF Resolved
    <3>2. (next = 1 /\ lastEnd = [u \in URI |-> NoEnd] /\ status # "parsed")'
      BY <1>2, <2>1, <3>1, ReadingWaits
    <3>3. QED
      BY <1>0, <3>2, PTL
  <2>2. CASE resolve
    BY <1>2, <2>2, ResolveStep
  <2>3. CASE Return
    <3>1. /\ status = "resolving" /\ status' = "parsed" /\ UNCHANGED <<segments, next, lastEnd>>
          /\ next \notin DOMAIN segments
      BY <2>3 DEF Return, parserVars, resolveVars
    <3>2. next = Len(segments) + 1
      <4>1. next \in 1 .. Len(segments) + 1 /\ DOMAIN segments = 1 .. Len(segments) /\ Len(segments) \in Nat
        BY <1>2 DEF TypeOK
      <4>2. QED
        BY <3>1, <4>1
    <3>3. QED
      BY <1>2, <3>1, <3>2 DEF Resolved, EndKnown, Adjoins, RangesBefore, Earlier, End
  <2>4. CASE UNCHANGED vars
    BY <1>2, <2>4, Stutters DEF Resolved, EndKnown, Adjoins, RangesBefore, Earlier, End
  <2>5. QED
    BY <1>2, <2>1, <2>2, <2>3, <2>4, ReadingEnds
<1>3. QED
  BY <1>1, <1>2, TypeCorrect, PTL DEF Spec

\* A range without an offset begins where the one before it of the same resource ends, in
\* documents of any length and at offsets of any width.
THEOREM ImplicitRangesAdjoinCorrect == Spec => []ImplicitRangesAdjoin
<1>1. TypeOK /\ Resolved => ImplicitRangesAdjoin
  BY DEF Resolved, ImplicitRangesAdjoin, Adjoins, TypeOK
<1>2. QED
  BY <1>1, TypeCorrect, ResolvedCorrect, PTL
=============================================================================
