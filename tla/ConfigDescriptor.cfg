\* Every wLength from nothing to well beyond the descriptor
CONSTANT MaxLength = 260
SPECIFICATION Spec
INVARIANTS Reassembles SurplusAtFullPackets DescriptorsConsistent
