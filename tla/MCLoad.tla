------------------------------- MODULE MCLoad -------------------------------
(* A project of two overlaid files at the root, and two parts that they    *)
(* and each other may include or extend, one of them in a directory below. *)
EXTENDS LoadLayers

CONSTANTS m, o, a, b, root, parts, web, db

MCFile == {m, o, a, b}
MCDir == {root, parts}
MCDirOf == [f \in MCFile |-> IF f = a THEN parts ELSE root]
MCService == {web, db}

Alone == <<m>>
Overlaid == <<m, o>>

Short(svc) == [form |-> "short", svc |-> svc]
Named(svc) == [form |-> "mapping", svc |-> svc]
From(file, svc) == [form |-> "mapping", file |-> file, svc |-> svc]

Is(kind) == [kind |-> kind, ext |-> NoExt]
With(kind, ext) == [kind |-> kind, ext |-> ext]

Doc(include, ofS, ofT) == [include |-> include, services |-> (web :> ofS) @@ (db :> ofT)]

(* Documents that declare, inherit, refer, or do none of it.               *)
PrimaryServices ==
  {<<NoService, NoService>>,
   <<With("plain", Short(db)), NoBody>>,
   <<With("plain", Named(db)), With("bare", From(a, web))>>,
   <<With("ref", From(b, web)), With("plain", Short(web))>>}

PartAServices ==
  {<<Is("plain"), Is("ref")>>,
   <<With("bare", Short(db)), Is("plain")>>,
   <<With("plain", From(b, db)), NoService>>}

PartBServices ==
  {<<Is("ref"), Is("plain")>>,
   <<Is("ref"), With("plain", From(a, db))>>,
   <<With("plain", Short(db)), With("ref", Short(web))>>}

Primary == {Doc(i, w[1], w[2]) :
  i \in {<< >>, <<<<a>>>>, <<<<a, b>>>>, <<<<b>>, <<a>>, <<a>>>>},
  w \in PrimaryServices}

PartA == {Doc(i, w[1], w[2]) : i \in {<< >>, <<<<b>>>>}, w \in PartAServices}
           \cup {Blank, Unreadable, Doc(<<<<Away>>>>, With("plain", Short(db)), NoService)}

PartB == {Doc(i, w[1], w[2]) : i \in {<< >>, <<<<a>>>>}, w \in PartBServices}
           \cup {NotCompose, Doc(<< >>, NoService, NoService),
                 Doc(<<<<m>>>>, Is("plain"), Is("plain"))}

Tree(ofM, ofO, ofA, ofB) == (m :> ofM) @@ (o :> ofO) @@ (a :> ofA) @@ (b :> ofB)

Overlay == Doc(<< >>, Is("reset"), Is("override"))

MCInputs ==
  {[paths |-> Overlaid, docs |-> Tree(ofM, Overlay, ofA, ofB)] :
     ofM \in Primary \cup {Blank}, ofA \in PartA, ofB \in PartB}
    \cup {[paths |-> Alone, docs |-> Tree(ofM, Blank, ofA, ofB)] :
            ofM \in {Doc(<<<<a>>, <<b>>>>, w[1], w[2]) : w \in PrimaryServices}
                      \cup {Blank, NotCompose, Doc(<< >>, NoService, NoService)},
            ofA \in PartA, ofB \in PartB}
    \cup {[paths |-> Overlaid, docs |-> Tree(ofM, Blank, Blank, ofB)] :
            ofM \in {Blank, NotCompose, Doc(<< >>, NoService, NoBody),
                      Doc(<< >>, NoService, NoService)}, ofB \in PartB}
=============================================================================
