--------------------------- MODULE MCAgentAnalysis ---------------------------
EXTENDS AgentAnalysis, TLC

CONSTANTS o1, j1, t1, r1

OneJob    == (j1 :> o1)
Analysis  == (j1 :> AnalysisType)
OneTarget == (o1 :> t1)
==============================================================================
