---------------------------- MODULE ExecutionMC -----------------------------
(***************************************************************************)
(* Execution for TLC: every text of a few lines, every short price series. *)
(***************************************************************************)
EXTENDS Execution, TLC

CONSTANTS MaxLines, MaxDays, MaxClose

SeqsUpTo(S, n) == UNION {[1..k -> S] : k \in 0..n}

MCSlugs == ToSet(BacktestSections) \cup {"title", "placeholder", "table"}
MCRequiredSections == <<"risks", "sources">>
MCNotes == {<<>>, <<Item>>, <<Credential>>}
MCLabels == {<<Item>>, <<Item, BareHeading>>, <<Credential>>}

MCLines == {Heading("risks"), Heading("sources"), BareHeading, Prose("risks"), Item, Blank, Fence}
Listed(text) == \E i, j \in DOMAIN text : text[i] = Heading("sources") /\ text[j] = Item
MCAnswers ==
  SeqsUpTo(MCLines, 2)
    \cup {text \in [1..3 -> MCLines] \cup [1..MaxLines -> MCLines \ {Fence}] : Listed(text)}
    \cup {<<Fence>> \o text \o <<Fence>> : text \in {t \in SeqsUpTo(MCLines, 3) : Listed(t)}}
    \cup {<<BareHeading, Blank, Prose("risks"), Heading("sources"), Item>>,
          <<Heading("risks"), Heading("sources"), Item, Credential>>}

Record(date, kind, close) == [date |-> date, kind |-> kind, close |-> close]
Records ==
  {Record(date, "number", 1) : date \in 0..2}
    \cup {Record(2, "number", 0), Record(2, "inf", 1), Record(1, "nan", 1),
          Record(1, "huge", 1), Record(2, "text", 1)}
Priced(closes) == [i \in DOMAIN closes |-> Record(i, closes[i][1], closes[i][2])]
Numbers(max) == {<<"number", close>> : close \in 1..max}
Odd == {<<"inf", 1>>, <<"nan", 1>>}
MCCaches ==
  SeqsUpTo(Records, 2)
    \cup {Priced(closes) : closes \in SeqsUpTo(Numbers(MaxClose), MaxDays)}
    \cup {Priced([closes EXCEPT ![day] = odd]) :
            closes \in [1..MaxDays -> Numbers(2)], day \in 1..MaxDays, odd \in Odd}
    \cup {Priced([i \in 1..5 |-> IF i = 3 THEN <<"nan", 1>> ELSE <<"number", series[i]>>]) :
            series \in {<<1, 2, 1, 2, 1>>, <<2, 1, 1, 1, 2>>}}

ProcSymmetry == Permutations(Procs)
=============================================================================
