SPECIFICATION Spec
CONSTANTS
    r1 = r1
    r2 = r2
    ada = ada
    Ada = Ada
    lace = lace
    byron = byron
    Request <- TwoRequests
    Written <- TwoSpellings
    Email <- OneEmail
    Normal <- LowerCase
    Name <- TwoNames
    MaxTokens = 2
    MaxRestarts = 1
INVARIANTS TypeOK OneAccountEach TokensAreKept LogoutIsFinal
PROPERTIES AnsweredUnlessCut
