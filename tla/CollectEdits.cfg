SPECIFICATION Spec
CONSTANTS
  Findings <- MCFindings
  Rule <- MCRule
  Service <- MCService
  Block <- MCBlock
  Homes <- MCHomes
  Size <- MCSize
  Answers <- MCAnswers
  JointAnswers <- MCJointAnswers
CHECK_DEADLOCK FALSE
INVARIANTS SweepExact SpliceExact EachAnsweredOnce
