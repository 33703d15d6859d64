SPECIFICATION Spec
CONSTANTS
  m1=m1 m2=m2 a1=a1 a2=a2 t1=t1 t2=t2 o1=o1 s1=s1 s2=s2
  None=None
  Maps={m1,m2}
  Attachments={a1,a2}
  Threads={t1,t2}
  Pages={0,1}
  Opens={o1}
  Sessions={s1,s2}
  MaxGeneration=2
SYMMETRY Symmetry
INVARIANTS NoUnmapUnderUse PagesSupported ProjectionHasHolder GateIsComplete RetirementHasOneOwner
CHECK_DEADLOCK FALSE
PROPERTIES ImplementsCustody
