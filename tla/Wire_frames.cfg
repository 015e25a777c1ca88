\* Every kind of command and answer, at lengths around the limits of a packet.
CONSTANTS
    Bits = 4
    Sizes = {4090, 4094, 4095, 4096}
    CommandSizes = {4094, 4095, 4096, 8190, 8191}
    Exchanges <- MCExchanges
SPECIFICATION Spec
INVARIANTS CommandHeard AnswerRead
