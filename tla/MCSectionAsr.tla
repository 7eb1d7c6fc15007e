----------------------------- MODULE MCSectionAsr -----------------------------
(* Times in half seconds, thresholds as in the code: snap 1.5 s, duplicates  *)
(* 2 s, minimum 8 s, glitches 2 s, padding 1.5 s; the buckets end at 15 and   *)
(* 30 s.  Tracks of 24 s with up to three internal boundaries: dense ones,    *)
(* ones near the start and the end, sure and unsure ones, three labels.       *)
EXTENDS SectionAsr

CONSTANTS verse, intro, inst

T == 48
Edges == {{20}, {2, 20}, {20, 23}, {18, 28, 45}, {3, 22, 40}, {16, 19, 22}}
Marks(e) == <<0>> \o SetToSortSeq(e, <) \o <<T>>

RawOf(marks, labels, sure) == [i \in 1..(Len(marks) - 1) |->
    [start |-> marks[i], end |-> marks[i + 1], label |-> labels[i],
     before |-> sure[i], after |-> IF i < Len(marks) - 1 THEN sure[i + 1] ELSE 3]]

Labels(n) == {l \in [1..n -> {verse, intro, inst}] : l[1] # inst /\ (n = 1 \/ l[n] # intro)}
Sure(n) == {s \in [1..n -> {1, 2}] : s[1] = 1}

Track(raw, downbeats) == [raw |-> raw, downbeats |-> downbeats, total |-> T,
                          voiced |-> {30}, words |-> {1, 19, 21, 30}]

MCInputs ==
    {Track(<<>>, {})} \cup
    UNION {{Track(RawOf(Marks(e), l, s), d) : l \in Labels(Cardinality(e) + 1),
                                              s \in Sure(Cardinality(e) + 1),
                                              d \in {{}, {21, 43}}} : e \in Edges}

MCProtected == {intro}
MCInstrumental == {inst}
MCBucketLimits == <<30, 60>>
MCPrograms == {"file", "service"}
MCContentTypes == {"song", "instrumental"}
=============================================================================
