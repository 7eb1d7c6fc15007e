----------------------------- MODULE SectionPlan -----------------------------
(***************************************************************************)
(* From the sections a structure decoder found to the sections of a track: *)
(* scripts/structure_postprocess.py and postprocess_sections of            *)
(* scripts/pipeline_core.py.                                               *)
(*                                                                         *)
(* Internal boundaries are snapped to downbeats, kept once, thinned out,   *)
(* and removed one at a time while some section is too short; what is left *)
(* is labelled from the raw sections, and equal neighbours become one.     *)
(*                                                                         *)
(* Times are integers (half seconds in the runs), confidences are ranks.   *)
(***************************************************************************)
EXTENDS Integers, Sequences, FiniteSets, SequencesExt

CONSTANTS Inputs,            \* [raw, downbeats, total, voiced, words] of a track
          SnapTolerance, DuplicateTolerance,
          MinimumDuration, ExtremelyShort,
          ShortConfidence,   \* rank of short_boundary_confidence
          Certain,           \* rank of the confidence 1.0
          Protected          \* protected_labels

ASSUME SectionPlanAssumption ==
    /\ {SnapTolerance, DuplicateTolerance, MinimumDuration, ExtremelyShort} \subseteq Nat
    /\ 0 < ExtremelyShort /\ ExtremelyShort <= MinimumDuration
    /\ {ShortConfidence, Certain} \subseteq Nat
    /\ \A in \in Inputs :
        /\ in.total \in Nat
        /\ in.downbeats \subseteq Int /\ IsFiniteSet(in.downbeats)
        /\ in.words \subseteq Int
        /\ in.raw \in Seq(Range(in.raw))
        /\ \A s \in Range(in.raw) : {s.start, s.end, s.before, s.after} \subseteq Int

VARIABLES
    input,      \* the row of the track
    phase,      \* "merge", then "asr" and "done" of SectionAsr
    bounds,     \* deduped: times and confidences of the boundaries
    sections    \* the final sections

Raw == input.raw
Total == input.total

(***************************************************************************)
(* Boundaries.                                                             *)
(***************************************************************************)
Distance(a, b) == IF a < b THEN b - a ELSE a - b

NearestDownbeat(time) == CHOOSE d \in input.downbeats : \A e \in input.downbeats :
    \/ Distance(d, time) < Distance(e, time)
    \/ Distance(d, time) = Distance(e, time) /\ d <= e

Snapped(time) ==
    IF input.downbeats = {} \/ Distance(NearestDownbeat(time), time) > SnapTolerance THEN time
    ELSE NearestDownbeat(time)

\* Between two raw sections: the side that is surer of its edge decides.
Boundary(time, confidence) == [time |-> time, confidence |-> confidence]
Between(left, right) ==
    IF left.after >= right.before THEN Boundary(Snapped(left.end), left.after)
    ELSE Boundary(Snapped(right.start), right.before)

Internal == [i \in 1..(Len(Raw) - 1) |-> Between(Raw[i], Raw[i + 1])]

\* Boundaries closer than the tolerance: the stronger one stays.
Denser(kept, next) ==
    IF Len(kept) > 1 /\ next.time - Last(kept).time < DuplicateTolerance
    THEN IF next.confidence > Last(kept).confidence THEN Append(Front(kept), next) ELSE kept
    ELSE Append(kept, next)

Thinned[n \in 0..Len(Internal)] ==
    IF n = 0 THEN <<Boundary(0, Certain)>> ELSE Denser(Thinned[n - 1], Internal[n])

Deduped == Append(Thinned[Len(Internal)], Boundary(Total, Certain))

(***************************************************************************)
(* Labels, from the raw section in the middle, or the one overlapping most.*)
(***************************************************************************)
Overlap(i, begin, finish) ==
    LET upper == IF finish < Raw[i].end THEN finish ELSE Raw[i].end
        lower == IF begin > Raw[i].start THEN begin ELSE Raw[i].start
    IN  IF upper > lower THEN upper - lower ELSE 0

Selected(begin, finish) ==
    LET middle == {i \in DOMAIN Raw : 2 * Raw[i].start <= begin + finish
                                      /\ begin + finish < 2 * Raw[i].end}
        pool == IF middle = {} THEN DOMAIN Raw ELSE middle
    IN  CHOOSE i \in pool : \A j \in pool :
            \/ Overlap(i, begin, finish) > Overlap(j, begin, finish)
            \/ Overlap(i, begin, finish) = Overlap(j, begin, finish) /\ i <= j

LabelOf(begin, finish) == Raw[Selected(begin, finish)].label

(***************************************************************************)
(* Short sections.                                                         *)
(***************************************************************************)
Begin(i) == bounds[i].time
Finish(i) == bounds[i + 1].time
Duration(i) == Finish(i) - Begin(i)
InternalEdges(i) == {i, i + 1} \cap 2..(Len(bounds) - 1)

\* Meaningful although short: protected by its label, or by both its edges.
Meaningful(i) ==
    \/ LabelOf(Begin(i), Finish(i)) \in Protected
    \/ \A e \in InternalEdges(i) : bounds[e].confidence >= ShortConfidence

\* Faulty: a glitch is kept too when its label is protected.
TooShortUnlessMeaningful(i) ==
    Duration(i) < MinimumDuration /\ InternalEdges(i) # {} /\ ~Meaningful(i)

TooShort(i) ==
    /\ Duration(i) < MinimumDuration
    /\ InternalEdges(i) # {}
    /\ Duration(i) < ExtremelyShort \/ ~Meaningful(i)

WeakestEdge(i) == CHOOSE e \in InternalEdges(i) : \A f \in InternalEdges(i) :
    \/ bounds[e].confidence < bounds[f].confidence
    \/ bounds[e].confidence = bounds[f].confidence /\ e <= f

Short == {i \in 1..(Len(bounds) - 1) : TooShort(i)}
FirstShort == CHOOSE i \in Short : \A j \in Short : i <= j

(***************************************************************************)
(* The final sections, with the share of voice in each.                    *)
(***************************************************************************)
Voice(begin, finish) == Cardinality({v \in input.voiced : begin <= v /\ v < finish})

Intervals == [i \in 1..(Len(bounds) - 1) |->
    [start |-> Begin(i), end |-> Finish(i), label |-> LabelOf(Begin(i), Finish(i))]]

\* An interval with the label of the one before it extends that one.
JoinEqual(merged, next) ==
    IF merged # <<>> /\ Last(merged).label = next.label
    THEN Append(Front(merged), [start |-> Last(merged).start, end |-> next.end,
                                label |-> next.label])
    ELSE Append(merged, next)

Joined[n \in 0..Len(Intervals)] ==
    IF n = 0 THEN <<>> ELSE JoinEqual(Joined[n - 1], Intervals[n])

PlanInit ==
    /\ input \in Inputs
    /\ phase = "merge"
    /\ bounds = IF Total > 0 /\ Raw # <<>> THEN Deduped ELSE <<>>
    /\ sections = <<>>

RemoveBoundary ==
    /\ phase = "merge"
    /\ Len(bounds) > 2 /\ Short # {}
    /\ bounds' = RemoveAt(bounds, WeakestEdge(FirstShort))
    /\ UNCHANGED <<input, phase, sections>>

\* Without a duration or raw sections the record is an error without sections.
EmitSections ==
    /\ phase = "merge"
    /\ Len(bounds) <= 2 \/ Short = {}
    /\ sections' = IF bounds = <<>> THEN <<>> ELSE Joined[Len(Intervals)]
    /\ phase' = "planned"
    /\ UNCHANGED <<input, bounds>>

PlanNext == RemoveBoundary \/ EmitSections

(***************************************************************************)
(* Properties.                                                             *)
(***************************************************************************)
\* The sections of a track cover it from its start to its end without a gap
\* or an overlap, none is a glitch unless it is the whole track, a short one
\* was labelled or bounded surely, and neighbours differ in label - whatever
\* the snapping moved and in whatever order the boundaries went.
SectionsTile == phase # "merge" /\ sections # <<>> =>
    /\ sections[1].start = 0 /\ Last(sections).end = Total
    /\ \A i \in DOMAIN sections :
        LET s == sections[i]
        IN  /\ s.start < s.end
            /\ i > 1 => sections[i - 1].end = s.start /\ sections[i - 1].label # s.label
            /\ s.end - s.start < ExtremelyShort => Len(sections) = 1
            /\ s.end - s.start < MinimumDuration /\ Len(sections) > 1 =>
                   \/ s.label \in Protected
                   \/ \A b \in Range(bounds) : b.time \in {s.start, s.end} \ {0, Total}
                                               => b.confidence >= ShortConfidence
=============================================================================
