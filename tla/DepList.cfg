CONSTANTS
    d1 = d1
    d2 = d2
    d3 = d3
    t1 = t1
    t2 = t2
    t3 = t3
    t4 = t4
    Ditems <- MCDitems
    Tokens <- MCTokens
    Graphs <- MCGraphs
    Lists <- Selections
SPECIFICATION CasesSpec
INVARIANTS EvaluationIsSound SelectionIsNeeded
PROPERTIES ImplementsDepOrder Terminates
