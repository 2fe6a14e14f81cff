SPECIFICATION DecoderSpec
CONSTANTS
    Period = 6
    EdgeSearch = 2
    Fraction = 2
    Noise = 7
    Payloads = {{9, 11, 12, 17, 23}}
    MaxFlips = 3
INVARIANTS
    OnlyTrueWords
    AnchorsFollowNoise
